---- MODULE Spec2Model ----
(***************************************************************************)
(* Model of the byteplug node toolkit: the schema validator                *)
(* (payload/src/format.js), the decoder documentToObject (document.js) and *)
(* the encoder objectToDocument (object.js), with the helpers of           *)
(* utility.js.                                                             *)
(*                                                                         *)
(* JavaScript values are tagged records; the payload field has a name of   *)
(* its own per tag.  Numbers are fixed-point, counted in tenths: Num(425)  *)
(* is 42.5 and Num(420) is 42.  Strings are atomic; Chars gives the        *)
(* characters of every string that the code measures, parses or matches.   *)
(* Objects are sequences of entries in JavaScript's property order.        *)
(***************************************************************************)
EXTENDS Integers, Sequences, FiniteSets, TLC
---------------------------------------------------------------------------
(* JavaScript values *)

Undefined == [t |-> "undefined"]
Null      == [t |-> "null"]
NaN       == [t |-> "nan"]
Bool(b)   == [t |-> "boolean", b |-> b]
Num(n)    == [t |-> "number", n |-> n]
Str(s)    == [t |-> "string", s |-> s]
Arr(a)    == [t |-> "array", a |-> a]
Obj(o)    == [t |-> "object", o |-> o]
P(k, v)   == [k |-> k, v |-> v]

\* typeof x
TypeOf(x) ==
    CASE x.t \in {"null", "array", "object"} -> "object"
      [] x.t \in {"number", "nan"} -> "number"
      [] OTHER -> x.t

\* x is null or undefined: reading a property of x throws a TypeError
Nullish(x) == x.t \in {"null", "undefined"}

\* Number.isInteger(x)
IsInteger(x) == x.t = "number" /\ x.n % 10 = 0

\* Number.parseInt(x) of a number: the integer part, towards zero
ParseInt(x) ==
    IF x.t = "number"
    THEN Num(IF x.n >= 0 THEN (x.n \div 10) * 10 ELSE 0 - (((0 - x.n) \div 10) * 10))
    ELSE NaN
---------------------------------------------------------------------------
(* Strings: the characters of the strings that are measured or parsed *)

Digits == <<"0", "1", "2", "3", "4", "5", "6", "7", "8", "9">>

DigitSet == {Digits[i] : i \in 1..10}

\* the characters accepted by /^[a-zA-Z0-9\-\_]+$/
NameChars ==
    DigitSet \cup {"-", "_"} \cup
    {"a", "b", "c", "d", "e", "f", "g", "h", "i", "j", "k", "l", "m", "n", "o",
     "p", "q", "r", "s", "t", "u", "v", "w", "x", "y", "z"} \cup
    {"A", "B", "C", "D", "E", "F", "G", "H", "I", "J", "K", "L", "M", "N", "O",
     "P", "Q", "R", "S", "T", "U", "V", "W", "X", "Y", "Z"}

Chars(s) ==
    CASE s = ""      -> <<>>
      [] s = "0"     -> <<"0">>
      [] s = "1"     -> <<"1">>
      [] s = "2"     -> <<"2">>
      [] s = "1.0"   -> <<"1", ".", "0">>
      [] s = "+1"    -> <<"+", "1">>
      [] s = "01"    -> <<"0", "1">>
      [] s = "2.5"   -> <<"2", ".", "5">>
      [] s = "1x"    -> <<"1", "x">>
      [] s = "-1"    -> <<"-", "1">>
      [] s = "a"     -> <<"a">>
      [] s = "b"     -> <<"b">>
      [] s = "c"     -> <<"c">>
      [] s = "ab"    -> <<"a", "b">>
      [] s = "abc"   -> <<"a", "b", "c">>
      [] s = "a b"   -> <<"a", " ", "b">>
      [] s = "a*"    -> <<"a", "*">>
      [] s = "foo"   -> <<"f", "o", "o">>
      [] s = "bar"   -> <<"b", "a", "r">>
      [] s = "quz"   -> <<"q", "u", "z">>
      [] s = "type"  -> <<"t", "y", "p", "e">>
      [] s = "value" -> <<"v", "a", "l", "u", "e">>
      [] s = "true"  -> <<"t", "r", "u", "e">>
      [] s = "false" -> <<"f", "a", "l", "s", "e">>
      [] s = "null"  -> <<"n", "u", "l", "l">>
      [] s = "^ab$"  -> <<"^", "a", "b", "$">>
      [] s = "valueOf" -> <<"v", "a", "l", "u", "e", "O", "f">>

\* the strings Chars knows
KnownStrings ==
    {"", "0", "1", "2", "1.0", "+1", "01", "2.5", "1x", "-1", "a", "b", "c", "ab",
     "abc", "a b", "a*", "foo", "bar", "quz", "type", "value", "true", "false", "null", "^ab$",
     "valueOf"}

\* s.length
StrLength(s) == Len(Chars(s))

\* /^[a-zA-Z0-9\-\_]+$/.test(s) for a string s
NamePatternTest(s) ==
    Len(Chars(s)) > 0 /\ \A i \in 1..Len(Chars(s)) : Chars(s)[i] \in NameChars

DigitValue(c) == CHOOSE d \in 0..9 : Digits[d + 1] = c

\* the number of leading characters of cs, from position i, that are digits
RECURSIVE DigitRun(_, _)
DigitRun(cs, i) ==
    IF i <= Len(cs) /\ cs[i] \in DigitSet THEN 1 + DigitRun(cs, i + 1) ELSE 0

\* the value of the digits cs[i .. i+n-1]
RECURSIVE DigitsValue(_, _, _)
DigitsValue(cs, i, n) ==
    IF n = 0 THEN 0 ELSE DigitsValue(cs, i, n - 1) * 10 + DigitValue(cs[i + n - 1])

RECURSIVE Pow10(_)
Pow10(n) == IF n = 0 THEN 1 ELSE 10 * Pow10(n - 1)

\* the number of blanks that cs starts with
RECURSIVE BlankRun(_, _)
BlankRun(cs, i) == IF i <= Len(cs) /\ cs[i] = " " THEN 1 + BlankRun(cs, i + 1) ELSE 0

\* the literal read: nInt digits from i0, and nFr digits after a dot (-1: no dot)
ScanResult(cs, i0, neg, nInt, nFr) ==
    [ok   |-> nInt > 0 \/ nFr > 0,
     n    |-> (IF neg THEN 0 - 1 ELSE 1) *
              (DigitsValue(cs, i0, nInt) * 10
                 + (IF nFr > 0
                    THEN (DigitsValue(cs, i0 + nInt + 1, nFr) * 10) \div Pow10(nFr)
                    ELSE 0)),
     \* "1." is read whole; in ".x" nothing is read
     used |-> (i0 - 1) + nInt + (IF nFr >= 0 /\ (nInt > 0 \/ nFr > 0) THEN 1 + nFr ELSE 0)]

ScanFraction(cs, i0, neg, nInt) ==
    ScanResult(cs, i0, neg, nInt,
               IF i0 + nInt <= Len(cs) /\ cs[i0 + nInt] = "."
               THEN DigitRun(cs, i0 + nInt + 1)
               ELSE 0 - 1)

ScanSign(cs, ws) ==
    ScanFraction(cs,
                 IF Len(cs) > ws /\ cs[ws + 1] \in {"+", "-"} THEN ws + 2 ELSE ws + 1,
                 Len(cs) > ws /\ cs[ws + 1] = "-",
                 DigitRun(cs, IF Len(cs) > ws /\ cs[ws + 1] \in {"+", "-"} THEN ws + 2 ELSE ws + 1))

\* The longest prefix of cs that is a decimal literal (StrDecimalLiteral without
\* exponent), after leading blanks: [ok, n (tenths), used (characters read)].
ScanDecimal(cs) == ScanSign(cs, BlankRun(cs, 1))

\* Number.parseFloat(s)
ParseFloat(s) ==
    IF ScanDecimal(Chars(s)).ok THEN Num(ScanDecimal(Chars(s)).n) ELSE NaN

\* ToNumber(s) of a string: the whole string must be a literal; "" is 0
StringToNumber(s) ==
    IF Len(Chars(s)) = 0 THEN Num(0)
    ELSE IF ScanDecimal(Chars(s)).ok /\ ScanDecimal(Chars(s)).used = Len(Chars(s))
    THEN Num(ScanDecimal(Chars(s)).n)
    ELSE NaN

\* the decimal digits of a natural number
RECURSIVE NatChars(_)
NatChars(n) ==
    IF n < 10 THEN <<Digits[n + 1]>> ELSE Append(NatChars(n \div 10), Digits[(n % 10) + 1])

\* String(x) of an integral number x, as used for a property key
IntegerToString(x) ==
    CHOOSE s \in KnownStrings :
        Chars(s) = IF x.n < 0 THEN <<"-">> \o NatChars((0 - x.n) \div 10)
                   ELSE NatChars(x.n \div 10)

\* s is an integer index: such property keys come first, in ascending order
IsArrayIndex(s) ==
    /\ Len(Chars(s)) > 0
    /\ \A i \in 1..Len(Chars(s)) : Chars(s)[i] \in DigitSet
    /\ (Len(Chars(s)) > 1 => Chars(s)[1] # "0")

IndexValue(s) == DigitsValue(Chars(s), 1, Len(Chars(s)))
---------------------------------------------------------------------------
(* Objects and arrays *)

\* the keys of the elements of an array
IndexKeys == <<"0", "1", "2", "3">>

\* Object.keys(x) of an object or an array
Keys(x) ==
    IF x.t = "object" THEN [i \in 1..Len(x.o) |-> x.o[i].k]
    ELSE IF x.t = "array" THEN [i \in 1..Len(x.a) |-> IndexKeys[i]]
    ELSE <<>>

\* x has an own property k
HasOwn(x, k) ==
    IF x.t = "object" THEN \E i \in 1..Len(x.o) : x.o[i].k = k
    ELSE IF x.t = "array" THEN \E i \in 1..Len(x.a) : IndexKeys[i] = k
    ELSE FALSE

\* x[k] (x.k) for a value x that is neither null nor undefined
Get(x, k) ==
    IF x.t = "object" /\ (\E i \in 1..Len(x.o) : x.o[i].k = k)
    THEN x.o[CHOOSE i \in 1..Len(x.o) : x.o[i].k = k].v
    ELSE IF x.t = "array" /\ (\E i \in 1..Len(x.a) : IndexKeys[i] = k)
    THEN x.a[CHOOSE i \in 1..Len(x.a) : IndexKeys[i] = k]
    ELSE IF x.t = "array" /\ k = "length" THEN Num(Len(x.a) * 10)
    ELSE IF x.t = "string" /\ k = "length" THEN Num(StrLength(x.s) * 10)
    ELSE Undefined

\* x.constructor === Array, for a value x that is neither null nor undefined
ConstructorIsArray(x) == x.t = "array"

\* a variant of InsertAt: a new key is put after the entries, whatever the key
InsertAt_end(o, k) == Len(o) + 1

\* the place of a new key k among the entries o: integer indices come first, in
\* ascending order, then the other keys in insertion order
InsertAt(o, k) ==
    IF IsArrayIndex(k)
    THEN 1 + Cardinality({i \in 1..Len(o) : IsArrayIndex(o[i].k) /\ IndexValue(o[i].k) < IndexValue(k)})
    ELSE Len(o) + 1

\* obj[k] = v on a plain object
ObjSet(obj, k, v) ==
    IF \E i \in 1..Len(obj.o) : obj.o[i].k = k
    THEN Obj([i \in 1..Len(obj.o) |-> IF obj.o[i].k = k THEN P(k, v) ELSE obj.o[i]])
    ELSE Obj(SubSeq(obj.o, 1, InsertAt(obj.o, k) - 1) \o <<P(k, v)>>
                 \o SubSeq(obj.o, InsertAt(obj.o, k), Len(obj.o)))

\* ToNumber(x) of a primitive
ToNumber(x) ==
    CASE x.t = "number"    -> x
      [] x.t = "nan"       -> NaN
      [] x.t = "undefined" -> NaN
      [] x.t = "null"      -> Num(0)
      [] x.t = "boolean"   -> IF x.b THEN Num(10) ELSE Num(0)
      [] x.t = "string"    -> StringToNumber(x.s)

\* String(x) of a primitive, as a template literal or RegExp.test coerces it
JsToString(x) ==
    CASE x.t = "string"    -> x.s
      [] x.t = "null"      -> "null"
      [] x.t = "boolean"   -> IF x.b THEN "true" ELSE "false"
      [] x.t = "number" /\ IsInteger(x) -> IntegerToString(x)

\* a < b, a <= b, a > b, a >= b where not both operands are strings
NumLt(x, y) == x.t = "number" /\ y.t = "number" /\ x.n < y.n
NumLe(x, y) == x.t = "number" /\ y.t = "number" /\ x.n <= y.n
JsLt(a, b) == NumLt(ToNumber(a), ToNumber(b))
JsLe(a, b) == NumLe(ToNumber(a), ToNumber(b))
JsGt(a, b) == JsLt(b, a)
JsGe(a, b) == JsLe(b, a)
---------------------------------------------------------------------------
(* The walk's bookkeeping.  A walk state st is [log, thrown]: log holds the  *)
(* ValidationErrors and ValidationWarnings pushed so far, in program order,  *)
(* and thrown tells that a TypeError has ended the walk.                     *)

ValidationError(path, message)   == [kind |-> "error", path |-> path, message |-> message]
ValidationWarning(path, message) == [kind |-> "warning", path |-> path, message |-> message]

NoLog == [log |-> <<>>, thrown |-> FALSE]

\* errors.push(new ValidationError(path, message))
PushError(st, path, message) ==
    IF st.thrown THEN st ELSE [st EXCEPT !.log = Append(@, ValidationError(path, message))]

\* warnings.push(new ValidationWarning(path, message))
PushWarning(st, path, message) ==
    IF st.thrown THEN st ELSE [st EXCEPT !.log = Append(@, ValidationWarning(path, message))]

PushErrorIf(condition, st, path, message) ==
    IF condition THEN PushError(st, path, message) ELSE st

PushWarningIf(condition, st, path, message) ==
    IF condition THEN PushWarning(st, path, message) ELSE st

\* a TypeError leaves the walk
ThrowTypeError(st) == [st EXCEPT !.thrown = TRUE]

ErrorsOf(log)   == SelectSeq(log, LAMBDA e : e.kind = "error")
WarningsOf(log) == SelectSeq(log, LAMBDA e : e.kind = "warning")

\* one "'<property>' property is unexpected" error per extra property, at path
RECURSIVE PushUnexpected(_, _, _, _)
PushUnexpected(st, path, extra, i) ==
    IF i > Len(extra) THEN st
    ELSE PushUnexpected(PushError(st, path, <<"'", extra[i], "' property is unexpected">>),
                        path, extra, i + 1)
---------------------------------------------------------------------------
(* The schema validator: payload/src/format.js *)

Bound(exclusive, value) == [t |-> "bound", exclusive |-> exclusive, value |-> value]

\* validateMinimumOrMaximumProperty once block.exclusive is checked (st)
validateBoundValue(name, path, block, st) ==
    IF Get(block, "value") = Undefined
    THEN [st  |-> PushError(st, Append(path, <<name>>), <<"'value' property is missing">>),
          ret |-> Undefined]
    ELSE IF TypeOf(Get(block, "value")) # "number"
    THEN [st  |-> PushError(st, path \o <<<<name>>, <<"value">>>>,
                            <<"value must be a number">>),
          ret |-> Undefined]
    \* the code sets exclusive = true whenever the property is a boolean
    ELSE [st  |-> st,
          ret |-> Bound(TypeOf(Get(block, "exclusive")) = "boolean", Get(block, "value"))]

\* Returns [st, ret]: ret is the bound read, or Undefined.
validateMinimumOrMaximumProperty(name, path, block, st) ==
    IF TypeOf(block) = "number"
    THEN [st |-> st, ret |-> Bound(FALSE, block)]
    ELSE IF TypeOf(block) = "object"
    THEN IF Nullish(block)
         THEN [st |-> ThrowTypeError(st), ret |-> Undefined]   \* Object.keys(null)
         ELSE IF \E i \in 1..Len(Keys(block)) : Keys(block)[i] \notin {"exclusive", "value"}
         THEN [st  |-> PushUnexpected(st, Append(path, <<name>>),
                           SelectSeq(Keys(block), LAMBDA p : p \notin {"exclusive", "value"}), 1),
               ret |-> Undefined]
         ELSE validateBoundValue(name, path, block,
                  PushErrorIf(Get(block, "exclusive") # Undefined
                                  /\ TypeOf(Get(block, "exclusive")) # "boolean",
                              st, path \o <<<<name>>, <<"exclusive">>>>,
                              <<"value must be a bool">>))
    ELSE [st  |-> PushError(st, Append(path, <<name>>),
                            <<"value must be either a number or an object">>),
          ret |-> Undefined]

\* a variant of validateLengthBound: a bound that is no number gets its error only
validateLengthBound_typed(path, name, bound, st) ==
    IF bound = Undefined THEN st
    ELSE IF TypeOf(bound) # "number"
    THEN PushError(st, Append(path, <<name>>), <<"value must be a number">>)
    ELSE PushErrorIf(JsLt(bound, Num(0)),
             PushWarningIf(~IsInteger(bound), st,
                 Append(path, <<name>>), <<"should be an integer (got decimal)">>),
             Append(path, <<name>>), <<"must be greater or equal to zero">>)

\* the three checks of value.minimum, and of value.maximum, of a length object
validateLengthBound(path, name, bound, st) ==
    IF bound = Undefined THEN st
    ELSE PushErrorIf(JsLt(bound, Num(0)),
             PushWarningIf(~IsInteger(bound),
                 PushErrorIf(TypeOf(bound) # "number",
                             st, Append(path, <<name>>), <<"value must be a number">>),
                 Append(path, <<name>>), <<"should be an integer (got decimal)">>),
             Append(path, <<name>>), <<"must be greater or equal to zero">>)

\* the checks of an object-form length, extra properties apart
validateLengthObject(path, minimum, maximum, st) ==
    PushErrorIf(minimum # Undefined /\ maximum # Undefined /\ JsGt(minimum, maximum),
        validateLengthBound(path, "maximum", maximum,
            validateLengthBound(path, "minimum", minimum, st)),
        path, <<"minimum must be lower than maximum">>)

\* validateLengthProperty, path being path.concat('length')
validateLengthAt(path, value, st) ==
    IF TypeOf(value) = "number"
    THEN PushErrorIf(JsLt(value, Num(0)),
             PushWarningIf(~IsInteger(value), st, path, <<"should be an integer (got decimal)">>),
             path, <<"must be greater or equal to zero">>)
    ELSE IF TypeOf(value) = "object"
    THEN IF Nullish(value) THEN ThrowTypeError(st)        \* Object.keys(null)
         ELSE IF \E i \in 1..Len(Keys(value)) : Keys(value)[i] \notin {"minimum", "maximum"}
         THEN PushUnexpected(st, path,
                  SelectSeq(Keys(value), LAMBDA p : p \notin {"minimum", "maximum"}), 1)
         ELSE validateLengthObject(path, Get(value, "minimum"), Get(value, "maximum"), st)
    ELSE PushError(st, path, <<"value must be either a number or an object">>)

validateLengthProperty(path, value, st) ==
    validateLengthAt(Append(path, <<"length">>), value, st)

\* if (block.length !== undefined) validateLengthProperty(path, block.length, ...)
validateLengthIfSet(path, block, st) ==
    IF st.thrown \/ Get(block, "length") = Undefined THEN st
    ELSE validateLengthProperty(path, Get(block, "length"), st)

validateFlagBlock(path, block, st) == st

\* the bound read from block[name], if the property is set: [st, ret]
validateBoundIfSet(name, path, block, st) ==
    IF st.thrown \/ Get(block, name) = Undefined
    THEN [st |-> st, ret |-> Undefined]
    ELSE validateMinimumOrMaximumProperty(name, path, Get(block, name), st)

\* a variant of validateBounds: equal bounds are refused as well
validateBounds_inclusive(path, minimum, r) ==
    PushErrorIf(minimum # Undefined /\ r.ret # Undefined /\ JsLe(r.ret.value, minimum.value),
                r.st, path, <<"minimum must be lower than maximum">>)

\* the comparison of the two bounds that ends validateNumberBlock
validateBounds(path, minimum, r) ==
    PushErrorIf(minimum # Undefined /\ r.ret # Undefined /\ JsLt(r.ret.value, minimum.value),
                r.st, path, <<"minimum must be lower than maximum">>)

\* validateNumberBlock after block.minimum is read (r)
validateMaximum(path, block, r) ==
    validateBounds(path, r.ret, validateBoundIfSet("maximum", path, block, r.st))

validateNumberBlock(path, block, st) ==
    validateMaximum(path, block,
        validateBoundIfSet("minimum", path, block,
            PushErrorIf(Get(block, "decimal") # Undefined
                            /\ TypeOf(Get(block, "decimal")) # "boolean",
                        st, Append(path, <<"decimal">>), <<"value must be a bool">>)))

validateStringBlock(path, block, st) ==
    PushErrorIf(Get(block, "pattern") # Undefined /\ TypeOf(Get(block, "pattern")) # "string",
                validateLengthIfSet(path, block, st),
                Append(path, <<"pattern">>), <<"value must be a string">>)

ValidatorProperties(type) ==
    CASE type = "flag"   -> {}
      [] type = "number" -> {"decimal", "minimum", "maximum"}
      [] type = "string" -> {"length", "pattern"}
      [] type = "array"  -> {"value", "length"}
      [] type = "object" -> {"key", "value", "length"}
      [] type = "tuple"  -> {"items"}
      [] type = "map"    -> {"fields"}
      [] type = "enum"   -> {"values"}

ValidatorKinds == {"flag", "number", "string", "array", "object", "tuple", "map", "enum"}

RECURSIVE validateBlock(_, _, _)

validateArrayBlock(path, block, st) ==
    IF Get(block, "value") = Undefined
    THEN PushError(st, path, <<"'value' property is missing">>)
    ELSE validateLengthIfSet(path, block,
             validateBlock(Append(path, <<"[]">>), Get(block, "value"), st))

\* the check of block.key in validateObjectBlock
validateKey(path, key, st) ==
    IF key # Undefined
    THEN PushErrorIf(key \notin {Str("string"), Str("integer")},
                     st, path, <<"value of 'key' must be either 'integer' or 'string'">>)
    ELSE PushError(st, path, <<"'key' property is missing">>)

validateObjectBlock(path, block, st) ==
    validateLengthIfSet(path, block,
        validateKey(path, Get(block, "key"),
            IF Get(block, "value") # Undefined
            THEN validateBlock(Append(path, <<"{}">>), Get(block, "value"), st)
            ELSE PushError(st, path, <<"'value' property is missing">>)))

\* block.items.forEach((value, index) => validateBlock(path.concat(`<${index}>`), ...))
RECURSIVE validateItems(_, _, _, _)
validateItems(path, items, i, st) ==
    IF i > Len(items) \/ st.thrown THEN st
    ELSE validateItems(path, items, i + 1,
                       validateBlock(Append(path, <<"<>", i - 1>>), items[i], st))

validateTupleBlock(path, block, st) ==
    LET items == Get(block, "items")
    IN  IF items = Undefined
        THEN PushError(st, path, <<"'items' property is missing">>)
        ELSE IF Nullish(items) THEN ThrowTypeError(st)        \* null.constructor
        ELSE IF ~ConstructorIsArray(items)
        THEN PushError(st, Append(path, <<"items">>), <<"value must be an array">>)
        ELSE IF Len(items.a) = 0
        THEN PushError(st, Append(path, <<"items">>), <<"must contain at least one value">>)
        ELSE validateItems(path, items.a, 1, st)

\* for (const [key, value] of Object.entries(block.fields))
RECURSIVE validateFields(_, _, _, _)
validateFields(path, fields, i, st) ==
    IF i > Len(Keys(fields)) \/ st.thrown THEN st
    ELSE LET key == Keys(fields)[i]
         IN  validateFields(path, fields, i + 1,
                 IF ~NamePatternTest(key)
                 THEN PushError(st, Append(path, <<"fields">>),
                                <<"'", key, "' is an incorrect key name">>)
                 ELSE validateBlock(Append(path, <<"$", key>>), Get(fields, key), st))

validateMapBlock(path, block, st) ==
    LET fields == Get(block, "fields")
    IN  IF fields = Undefined
        THEN PushError(st, path, <<"'fields' property is missing">>)
        ELSE IF TypeOf(fields) # "object"
        THEN PushError(st, Append(path, <<"fields">>), <<"value must be an object">>)
        ELSE IF Nullish(fields) THEN ThrowTypeError(st)       \* Object.keys(null)
        ELSE IF Len(Keys(fields)) = 0
        THEN PushError(st, Append(path, <<"fields">>), <<"must contain at least one field">>)
        ELSE validateFields(path, fields, 1, st)

\* block.values.forEach(value => ...), processedValues being the values kept so far
RECURSIVE validateValues(_, _, _, _, _)
\* a variant of validateValues: processedValues holds the last value kept only
validateValues_last(path, values, i, processedValues, st) ==
    IF i > Len(values) THEN st
    ELSE IF ~NamePatternTest(JsToString(values[i]))
    THEN validateValues(path, values, i + 1, processedValues,
             PushError(st, Append(path, <<"values">>),
                       <<"'", JsToString(values[i]), "' is an incorrect value">>))
    ELSE IF values[i] \in processedValues
    THEN validateValues(path, values, i + 1, processedValues,
             PushError(st, Append(path, <<"values">>),
                       <<"'", JsToString(values[i]), "' value is duplicated">>))
    ELSE validateValues(path, values, i + 1, {values[i]}, st)

validateValues(path, values, i, processedValues, st) ==
    IF i > Len(values) THEN st
    ELSE LET value == values[i]
         IN  IF ~NamePatternTest(JsToString(value))
             THEN validateValues(path, values, i + 1, processedValues,
                      PushError(st, Append(path, <<"values">>),
                                <<"'", JsToString(value), "' is an incorrect value">>))
             ELSE IF value \in processedValues
             THEN validateValues(path, values, i + 1, processedValues,
                      PushError(st, Append(path, <<"values">>),
                                <<"'", JsToString(value), "' value is duplicated">>))
             ELSE validateValues(path, values, i + 1, processedValues \cup {value}, st)

validateEnumBlock(path, block, st) ==
    LET values == Get(block, "values")
    IN  IF values = Undefined
        THEN PushError(st, path, <<"'values' property is missing">>)
        ELSE IF Nullish(values) THEN ThrowTypeError(st)       \* null.constructor
        ELSE IF ~ConstructorIsArray(values)
        THEN PushError(st, Append(path, <<"values">>), <<"value must be an array">>)
        ELSE IF Len(values.a) = 0
        THEN PushError(st, Append(path, <<"values">>), <<"must contain at least one value">>)
        ELSE validateValues(path, values.a, 1, {}, st)

\* validators[type].function(path, block, errors, warnings)
validateKind(type, path, block, st) ==
    CASE type = "flag"   -> validateFlagBlock(path, block, st)
      [] type = "number" -> validateNumberBlock(path, block, st)
      [] type = "string" -> validateStringBlock(path, block, st)
      [] type = "array"  -> validateArrayBlock(path, block, st)
      [] type = "object" -> validateObjectBlock(path, block, st)
      [] type = "tuple"  -> validateTupleBlock(path, block, st)
      [] type = "map"    -> validateMapBlock(path, block, st)
      [] type = "enum"   -> validateEnumBlock(path, block, st)

CommonProperties == {"name", "description", "type", "option"}

\* the checks of name, description and option that end validateBlock
validateCommon(path, block, st) ==
    PushErrorIf(Get(block, "option") # Undefined /\ TypeOf(Get(block, "option")) # "boolean",
        PushErrorIf(Get(block, "description") # Undefined
                        /\ TypeOf(Get(block, "description")) # "string",
            PushErrorIf(Get(block, "name") # Undefined /\ TypeOf(Get(block, "name")) # "string",
                        st, Append(path, <<"name">>), <<"value must be a string">>),
            Append(path, <<"description">>), <<"value must be a string">>),
        Append(path, <<"option">>), <<"value must be a bool">>)

\* a variant of validateTyped: name, description and option are checked before
\* the properties of the kind
validateTyped_commonFirst(type, path, block, st) ==
    validateKind(type, path, block,
        validateCommon(path, block,
            PushUnexpected(st, path,
                SelectSeq(Keys(block),
                          LAMBDA p : p \notin (ValidatorProperties(type) \cup CommonProperties)),
                1)))

\* validateBlock once block.type names a validator
validateTyped(type, path, block, st) ==
    validateCommon(path, block,
        validateKind(type, path, block,
            PushUnexpected(st, path,
                SelectSeq(Keys(block),
                          LAMBDA p : p \notin (ValidatorProperties(type) \cup CommonProperties)),
                1)))

validateBlock(path, block, st) ==
    IF st.thrown THEN st
    ELSE IF TypeOf(block) # "object"
    THEN PushError(st, path, <<"value must be an object">>)
    ELSE IF Nullish(block) THEN ThrowTypeError(st)            \* null.type
    ELSE IF Get(block, "type") = Undefined
    THEN PushError(st, path, <<"'type' property is missing">>)
    ELSE IF ~(Get(block, "type").t = "string" /\ Get(block, "type").s \in ValidatorKinds)
    THEN PushError(st, path, <<"value of 'type' is incorrect">>)
    ELSE validateTyped(Get(block, "type").s, path, block, st)
---------------------------------------------------------------------------
(* document-validator/src/utility.js *)

\* readMinimumValue(specs), readMaximumValue(specs): the bound, or Undefined
\* a variant of readMinimumValue: the exclusive property is not read
readMinimumValue_inclusive(specs) ==
    IF Get(specs, "minimum") = Undefined THEN Undefined
    ELSE IF TypeOf(Get(specs, "minimum")) = "number" THEN Bound(FALSE, Get(specs, "minimum"))
    ELSE Bound(FALSE, Get(Get(specs, "minimum"), "value"))

readMinimumValue(specs) ==
    IF Get(specs, "minimum") = Undefined THEN Undefined
    ELSE IF TypeOf(Get(specs, "minimum")) = "number" THEN Bound(FALSE, Get(specs, "minimum"))
    ELSE Bound(Get(Get(specs, "minimum"), "exclusive") = Bool(TRUE),
               Get(Get(specs, "minimum"), "value"))

readMaximumValue(specs) ==
    IF Get(specs, "maximum") = Undefined THEN Undefined
    ELSE IF TypeOf(Get(specs, "maximum")) = "number" THEN Bound(FALSE, Get(specs, "maximum"))
    ELSE Bound(Get(Get(specs, "maximum"), "exclusive") = Bool(TRUE),
               Get(Get(specs, "maximum"), "value"))

\* a variant of checkMaximum: a count equal to the maximum is refused
checkMaximum_strict(value, length, path, st) ==
    IF Get(length, "maximum") = Undefined THEN [st |-> st, length |-> length]
    ELSE [st     |-> PushErrorIf(~JsLt(value, ParseInt(Get(length, "maximum"))), st, path,
                                 <<"length must be equal or lower than ",
                                   ParseInt(Get(length, "maximum"))>>),
          length |-> ObjSet(length, "maximum", ParseInt(Get(length, "maximum")))]

\* the maximum branch of checkLength: [st, length]
checkMaximum(value, length, path, st) ==
    IF Get(length, "maximum") = Undefined THEN [st |-> st, length |-> length]
    ELSE [st     |-> PushErrorIf(~JsLe(value, ParseInt(Get(length, "maximum"))), st, path,
                                 <<"length must be equal or lower than ",
                                   ParseInt(Get(length, "maximum"))>>),
          length |-> ObjSet(length, "maximum", ParseInt(Get(length, "maximum")))]

\* a variant of checkMinimum: the parsed minimum is stored as text
checkMinimum_text(value, length, path, st) ==
    IF Get(length, "minimum") = Undefined THEN checkMaximum(value, length, path, st)
    ELSE IF ~JsGe(value, ParseInt(ToNumber(Get(length, "minimum"))))
    THEN [st     |-> PushError(st, path, <<"length must be equal or greater than ",
                                           ParseInt(ToNumber(Get(length, "minimum")))>>),
          length |-> ObjSet(length, "minimum",
                            Str(IntegerToString(ParseInt(ToNumber(Get(length, "minimum"))))))]
    ELSE checkMaximum(value,
                      ObjSet(length, "minimum",
                             Str(IntegerToString(ParseInt(ToNumber(Get(length, "minimum")))))),
                      path, st)

\* the minimum branch of checkLength, and what follows it: [st, length]
checkMinimum(value, length, path, st) ==
    IF Get(length, "minimum") = Undefined THEN checkMaximum(value, length, path, st)
    ELSE IF ~JsGe(value, ParseInt(Get(length, "minimum")))
    THEN [st     |-> PushError(st, path, <<"length must be equal or greater than ",
                                           ParseInt(Get(length, "minimum"))>>),
          length |-> ObjSet(length, "minimum", ParseInt(Get(length, "minimum")))]
    ELSE checkMaximum(value, ObjSet(length, "minimum", ParseInt(Get(length, "minimum"))),
                      path, st)

\* checkLength(value, length, path, errors, warnings).  Returns [st, length]:
\* length is the caller's length object after the call (the code assigns the
\* parsed integers to length.minimum and length.maximum).
checkLength(value, length, path, st) ==
    IF TypeOf(length) = "number"
    THEN [st     |-> PushErrorIf(value # ParseInt(length), st, path,
                                 <<"length must be equal to ", ParseInt(length)>>),
          length |-> length]
    ELSE checkMinimum(value, length, path, st)

\* the block with its length as checkLength (r) left it: [st, fmt]
lengthStored(format, r) == [st |-> r.st, fmt |-> ObjSet(format, "length", r.length)]

\* the length check of a string, array or object node: [st, fmt], fmt being the
\* block with its length object as checkLength left it
lengthChecked(count, format, path, st) ==
    IF Get(format, "length") = Undefined THEN [st |-> st, fmt |-> format]
    ELSE lengthStored(format, checkLength(Num(count * 10), Get(format, "length"), path, st))

\* the test of the characters cs against the pattern characters pc
PatternTest(pc, cs) ==
    IF Len(pc) >= 2 /\ pc[1] = "^" /\ pc[Len(pc)] = "$"
    THEN cs = SubSeq(pc, 2, Len(pc) - 1)
    ELSE \E i \in 0..(Len(cs) - Len(pc)) : SubSeq(cs, i + 1, i + Len(pc)) = pc

\* new RegExp(pattern).test(s): the patterns of the model are literal
\* characters, between "^" and "$" or free
RegExpTest(pattern, s) == PatternTest(Chars(pattern), Chars(s))

\* the property names every plain object inherits: `key in object` holds for them
InheritedProperties == {"constructor", "toString", "valueOf", "hasOwnProperty"}

\* key in x
In(key, x) == HasOwn(x, key) \/ key \in InheritedProperties

\* what a process...Node function returns: the walk state, the value returned
\* and the block as the call left it
R(st, val, fmt) == [st |-> st, val |-> val, fmt |-> fmt]
---------------------------------------------------------------------------
(* The decoder: document-validator/src/document.js *)

doc_processFlagNode(path, node, format, st) ==
    IF TypeOf(node) # "boolean"
    THEN R(PushError(st, path, <<"was expecting a JSON boolean">>), Undefined, format)
    ELSE R(st, node, format)

\* the check of the node against the minimum: the errors for nodeErrors
doc_minimumErrors(path, node, minimum) ==
    IF minimum = Undefined THEN <<>>
    ELSE IF minimum.exclusive
    THEN IF ~JsGt(node, minimum.value)
         THEN <<ValidationError(path, <<"value must be strictly greater than ", minimum.value>>)>>
         ELSE <<>>
    ELSE IF ~JsGe(node, minimum.value)
         THEN <<ValidationError(path, <<"value must be equal or greater than ", minimum.value>>)>>
         ELSE <<>>

\* the check of the node against the maximum: the errors for nodeErrors
doc_maximumErrors(path, node, maximum) ==
    IF maximum = Undefined THEN <<>>
    ELSE IF maximum.exclusive
    THEN IF ~JsLt(node, maximum.value)
         THEN <<ValidationError(path, <<"value must be strictly lower than ", maximum.value>>)>>
         ELSE <<>>
    ELSE IF ~JsLe(node, maximum.value)
         THEN <<ValidationError(path, <<"value must be equal or lower than ", maximum.value>>)>>
         ELSE <<>>

\* a variant of doc_numberResult: only the first of the node's errors is pushed
doc_numberResult_first(node, format, st, nodeErrors) ==
    IF Len(nodeErrors) > 0
    THEN R([st EXCEPT !.log = Append(@, nodeErrors[1])], Undefined, format)
    ELSE R(st, node, format)

\* if (nodeErrors.length > 0) { errors.push(...nodeErrors); return }  return node
doc_numberResult(node, format, st, nodeErrors) ==
    IF Len(nodeErrors) > 0
    THEN R([st EXCEPT !.log = @ \o nodeErrors], Undefined, format)
    ELSE R(st, node, format)

doc_processNumberNode(path, node, format, st) ==
    IF TypeOf(node) # "number"
    THEN R(PushError(st, path, <<"was expecting a JSON number">>), Undefined, format)
    ELSE IF Get(format, "decimal") = Bool(FALSE) /\ ~IsInteger(node)
    THEN R(PushError(st, path, <<"was expecting non-decimal number">>), Undefined, format)
    ELSE doc_numberResult(node, format, st,
             doc_minimumErrors(path, node, readMinimumValue(format))
                 \o doc_maximumErrors(path, node, readMaximumValue(format)))

\* processStringNode after the length check (c): the pattern, and the return.
\* nodeErrors stays empty: the node is returned whatever was pushed
doc_stringResult(path, node, format, c) ==
    R(PushErrorIf(Get(format, "pattern") # Undefined
                      /\ ~RegExpTest(Get(format, "pattern").s, node.s),
                  c.st, path, <<"value did not match the pattern">>),
      node, c.fmt)

doc_processStringNode(path, node, format, st) ==
    IF TypeOf(node) # "string"
    THEN R(PushError(st, path, <<"was expecting a JSON string">>), Undefined, format)
    ELSE doc_stringResult(path, node, format, lengthChecked(StrLength(node.s), format, path, st))

RECURSIVE doc_adjustNode(_, _, _, _)
RECURSIVE doc_arrayItems(_, _, _, _, _, _)

\* adjustedNode.push(adjustedItem), r being what adjustNode returned for item i
doc_arrayPush(path, items, i, r, adjustedNode) ==
    doc_arrayItems(path, items, i + 1, r.fmt, r.st, Append(adjustedNode, r.val))

\* a variant of doc_arrayItems: the segment counts the elements from one
doc_arrayItems_fromOne(path, items, i, value, st, adjustedNode) ==
    IF i > Len(items) \/ st.thrown THEN R(st, Arr(adjustedNode), value)
    ELSE doc_arrayPush(path, items, i,
             doc_adjustNode(Append(path, <<"[]", i>>), items[i], value, st),
             adjustedNode)

\* node.forEach((item, index) => adjustedNode.push(adjustNode(path.concat(`[${index}]`), ...)))
doc_arrayItems(path, items, i, value, st, adjustedNode) ==
    IF i > Len(items) \/ st.thrown THEN R(st, Arr(adjustedNode), value)
    ELSE doc_arrayPush(path, items, i,
             doc_adjustNode(Append(path, <<"[]", i - 1>>), items[i], value, st),
             adjustedNode)

\* the array returned, and the block with its value block as the walk (r) left it
doc_arrayResult(format, r) == R(r.st, r.val, ObjSet(format, "value", r.fmt))

\* processArrayNode after the length check (c)
doc_arrayChecked(path, node, c) ==
    doc_arrayResult(c.fmt, doc_arrayItems(path, node.a, 1, Get(c.fmt, "value"), c.st, <<>>))

doc_processArrayNode(path, node, format, st) ==
    IF Nullish(node) THEN R(ThrowTypeError(st), Undefined, format)     \* node.constructor
    ELSE IF ~ConstructorIsArray(node)
    THEN R(PushError(st, path, <<"was expecting a JSON array">>), Undefined, format)
    ELSE doc_arrayChecked(path, node, lengthChecked(Len(node.a), format, path, st))

RECURSIVE doc_objectEntries(_, _, _, _, _, _)

\* adjustedNode[nodeKey] = adjustedValue, r being what adjustNode returned
doc_objectSet(path, node, i, format, r, adjustedNode, nodeKey) ==
    doc_objectEntries(path, node, i + 1, ObjSet(format, "value", r.fmt), r.st,
        IF r.st.thrown THEN adjustedNode ELSE ObjSet(adjustedNode, nodeKey, r.val))

\* the entry itemKey of a node with integer keys
doc_integerKey(path, node, i, format, st, adjustedNode, itemKey, nodeKey) ==
    IF ~IsInteger(nodeKey)
    THEN doc_objectEntries(path, node, i + 1, format,
             PushError(st, path,
                 <<"key at index ", i - 1, " is invalid; expected it to be an integer">>),
             adjustedNode)
    ELSE doc_objectSet(path, node, i, format,
             doc_adjustNode(Append(path, <<"{}", itemKey>>), Get(node, itemKey),
                            Get(format, "value"), st),
             adjustedNode, IntegerToString(nodeKey))

\* the entry itemKey of a node with string keys
doc_stringKey(path, node, i, format, st, adjustedNode, itemKey) ==
    IF ~NamePatternTest(itemKey)
    THEN doc_objectEntries(path, node, i + 1, format,
             PushError(st, path,
                 <<"key at index ", i - 1, " is invalid; expected to match the pattern">>),
             adjustedNode)
    ELSE doc_objectSet(path, node, i, format,
             doc_adjustNode(Append(path, <<"{}", itemKey>>), Get(node, itemKey),
                            Get(format, "value"), st),
             adjustedNode, itemKey)

\* Object.keys(node).forEach((itemKey, index) => ...)
doc_objectEntries(path, node, i, format, st, adjustedNode) ==
    IF i > Len(Keys(node)) \/ st.thrown THEN R(st, adjustedNode, format)
    ELSE IF Get(format, "key") = Str("integer")
    THEN doc_integerKey(path, node, i, format, st, adjustedNode, Keys(node)[i],
                        ParseFloat(Keys(node)[i]))
    ELSE doc_stringKey(path, node, i, format, st, adjustedNode, Keys(node)[i])

\* processObjectNode after the length check (c)
doc_objectChecked(path, node, c) == doc_objectEntries(path, node, 1, c.fmt, c.st, Obj(<<>>))

doc_processObjectNode(path, node, format, st) ==
    IF Nullish(node) THEN R(ThrowTypeError(st), Undefined, format)     \* node.constructor
    ELSE IF ConstructorIsArray(node) \/ TypeOf(node) # "object"
    THEN R(PushError(st, path, <<"was expecting a JSON object">>), Undefined, format)
    ELSE doc_objectChecked(path, node, lengthChecked(Len(Keys(node)), format, path, st))

RECURSIVE doc_tupleItems(_, _, _, _, _, _)

\* adjustedNode.push(adjustedItem), r being what adjustNode returned for item i
doc_tuplePush(path, items, i, formatItems, r, adjustedNode) ==
    doc_tupleItems(path, items, i + 1, [formatItems EXCEPT ![i] = r.fmt], r.st,
                   Append(adjustedNode, r.val))

\* node.forEach((item, index) => adjustedNode.push(adjustNode(path.concat(`<${index}>`), ...)))
doc_tupleItems(path, items, i, formatItems, st, adjustedNode) ==
    IF i > Len(items) \/ st.thrown THEN R(st, Arr(adjustedNode), formatItems)
    ELSE doc_tuplePush(path, items, i, formatItems,
             doc_adjustNode(Append(path, <<"<>", i - 1>>), items[i], formatItems[i], st),
             adjustedNode)

\* the array returned, and the block with its items as the walk (r) left them
doc_tupleResult(format, r) == R(r.st, r.val, ObjSet(format, "items", Arr(r.fmt)))

\* a variant of doc_processTupleNode: after the error on the length of the
\* array, the items that have a block are still decoded
doc_processTupleNode_items(path, node, format, st) ==
    IF Nullish(node) THEN R(ThrowTypeError(st), Undefined, format)
    ELSE IF ~ConstructorIsArray(node)
    THEN R(PushError(st, path, <<"was expecting a JSON array">>), Undefined, format)
    ELSE IF Len(node.a) # Len(Get(format, "items").a)
    THEN R(doc_tupleItems(path,
                          SubSeq(node.a, 1, IF Len(node.a) < Len(Get(format, "items").a)
                                            THEN Len(node.a) ELSE Len(Get(format, "items").a)),
                          1, Get(format, "items").a,
                          PushError(st, path, <<"length of the array must be ",
                                                Len(Get(format, "items").a)>>),
                          <<>>).st,
           Undefined, format)
    ELSE doc_tupleResult(format,
             doc_tupleItems(path, node.a, 1, Get(format, "items").a, st, <<>>))

doc_processTupleNode(path, node, format, st) ==
    IF Nullish(node) THEN R(ThrowTypeError(st), Undefined, format)     \* node.constructor
    ELSE IF ~ConstructorIsArray(node)
    THEN R(PushError(st, path, <<"was expecting a JSON array">>), Undefined, format)
    ELSE IF Len(node.a) # Len(Get(format, "items").a)
    THEN R(PushError(st, path, <<"length of the array must be ", Len(Get(format, "items").a)>>),
           Undefined, format)
    ELSE doc_tupleResult(format,
             doc_tupleItems(path, node.a, 1, Get(format, "items").a, st, <<>>))

RECURSIVE doc_mapEntries(_, _, _, _, _, _)

\* adjustedNode[key] = adjustNode(...), r being what adjustNode returned
doc_mapSet(path, node, i, fields, r, adjustedNode, key) ==
    doc_mapEntries(path, node, i + 1, ObjSet(fields, key, r.fmt), r.st,
        IF r.st.thrown THEN adjustedNode ELSE ObjSet(adjustedNode, key, r.val))

\* the entry key of the node
doc_mapEntry(path, node, i, fields, st, adjustedNode, key) ==
    IF ~In(key, fields)
    THEN doc_mapEntries(path, node, i + 1, fields,
             PushError(st, path, <<"'", key, "' field was unexpected">>), adjustedNode)
    ELSE IF ~HasOwn(fields, key)
    \* an inherited property is no block: processors[undefined] is not a function
    THEN R(ThrowTypeError(st), adjustedNode, fields)
    ELSE doc_mapSet(path, node, i, fields,
             doc_adjustNode(Append(path, <<"$", key>>), Get(node, key), Get(fields, key), st),
             adjustedNode, key)

\* for (const [key, value] of Object.entries(node))
doc_mapEntries(path, node, i, fields, st, adjustedNode) ==
    IF i > Len(Keys(node)) \/ st.thrown THEN R(st, adjustedNode, fields)
    ELSE doc_mapEntry(path, node, i, fields, st, adjustedNode, Keys(node)[i])

\* missingKeys.forEach(key => ...), the keys of format.fields filtered on the way
RECURSIVE doc_mapMissing(_, _, _, _, _)
doc_mapMissing(path, fields, i, st, adjustedNode) ==
    IF i > Len(Keys(fields)) \/ st.thrown THEN R(st, adjustedNode, fields)
    ELSE IF In(Keys(fields)[i], adjustedNode)
    THEN doc_mapMissing(path, fields, i + 1, st, adjustedNode)
    ELSE IF Get(Get(fields, Keys(fields)[i]), "option") \in {Undefined, Bool(FALSE)}
    THEN doc_mapMissing(path, fields, i + 1,
             PushError(st, path, <<"'", Keys(fields)[i], "' field was missing">>), adjustedNode)
    ELSE doc_mapMissing(path, fields, i + 1, st, ObjSet(adjustedNode, Keys(fields)[i], Null))

\* the object returned (m), and the block with its fields as the walk left them.
\* nodeErrors stays empty: the node is returned whatever was pushed
doc_mapResult(format, m) ==
    R(m.st, IF m.st.thrown THEN Undefined ELSE m.val, ObjSet(format, "fields", m.fmt))

\* processMapNode after the entries of the node are walked (r)
doc_mapWalked(path, format, r) ==
    doc_mapResult(format, doc_mapMissing(path, r.fmt, 1, r.st, r.val))

doc_processMapNode(path, node, format, st) ==
    IF Nullish(node) THEN R(ThrowTypeError(st), Undefined, format)     \* node.constructor
    ELSE IF ConstructorIsArray(node) \/ TypeOf(node) # "object"
    THEN R(PushError(st, path, <<"was expecting a JSON object">>), Undefined, format)
    ELSE doc_mapWalked(path, format,
             doc_mapEntries(path, node, 1, Get(format, "fields"), st, Obj(<<>>)))

doc_processEnumNode(path, node, format, st) ==
    IF TypeOf(node) # "string"
    THEN R(PushError(st, path, <<"was expecting a JSON string">>), Undefined, format)
    ELSE IF \A i \in 1..Len(Get(format, "values").a) : Get(format, "values").a[i] # node
    THEN R(PushError(st, path, <<"enum value is invalid">>), Undefined, format)
    ELSE R(st, node, format)

\* processors[format.type](path, node, format, errors, warnings)
doc_processors(type, path, node, format, st) ==
    CASE type = Str("flag")   -> doc_processFlagNode(path, node, format, st)
      [] type = Str("number") -> doc_processNumberNode(path, node, format, st)
      [] type = Str("string") -> doc_processStringNode(path, node, format, st)
      [] type = Str("array")  -> doc_processArrayNode(path, node, format, st)
      [] type = Str("object") -> doc_processObjectNode(path, node, format, st)
      [] type = Str("tuple")  -> doc_processTupleNode(path, node, format, st)
      [] type = Str("map")    -> doc_processMapNode(path, node, format, st)
      [] type = Str("enum")   -> doc_processEnumNode(path, node, format, st)

\* a variant of doc_adjustNode: the option of the block is not looked at
doc_adjustNode_strict(path, node, format, st) ==
    IF st.thrown THEN R(st, Undefined, format)
    ELSE doc_processors(Get(format, "type"), path, node, format, st)

doc_adjustNode(path, node, format, st) ==
    IF st.thrown THEN R(st, Undefined, format)
    ELSE IF Get(format, "option") = Bool(TRUE) /\ node = Null
    THEN R(st, Null, format)
    ELSE doc_processors(Get(format, "type"), path, node, format, st)
---------------------------------------------------------------------------
(* The encoder: document-validator/src/object.js *)

\* a variant of obj_processFlagNode: the message is the decoder's
obj_processFlagNode_json(path, node, format, st) ==
    IF TypeOf(node) # "boolean"
    THEN R(PushError(st, path, <<"was expecting a JSON boolean">>), Undefined, format)
    ELSE R(st, node, format)

obj_processFlagNode(path, node, format, st) ==
    IF TypeOf(node) # "boolean"
    THEN R(PushError(st, path, <<"was expecting a boolean">>), Undefined, format)
    ELSE R(st, node, format)

\* the check of the node against the minimum: the errors for nodeErrors
obj_minimumErrors(path, node, minimum) ==
    IF minimum = Undefined THEN <<>>
    ELSE IF minimum.exclusive
    THEN IF ~JsGt(node, minimum.value)
         THEN <<ValidationError(path, <<"value must be strictly greater than ", minimum.value>>)>>
         ELSE <<>>
    ELSE IF ~JsGe(node, minimum.value)
         THEN <<ValidationError(path, <<"value must be equal or greater than ", minimum.value>>)>>
         ELSE <<>>

\* the check of the node against the maximum: the errors for nodeErrors
obj_maximumErrors(path, node, maximum) ==
    IF maximum = Undefined THEN <<>>
    ELSE IF maximum.exclusive
    THEN IF ~JsLt(node, maximum.value)
         THEN <<ValidationError(path, <<"value must be strictly lower than ", maximum.value>>)>>
         ELSE <<>>
    ELSE IF ~JsLe(node, maximum.value)
         THEN <<ValidationError(path, <<"value must be equal or lower than ", maximum.value>>)>>
         ELSE <<>>

\* if (nodeErrors.length > 0) { errors.push(...nodeErrors); return }  return node
obj_numberResult(node, format, st, nodeErrors) ==
    IF Len(nodeErrors) > 0
    THEN R([st EXCEPT !.log = @ \o nodeErrors], Undefined, format)
    ELSE R(st, node, format)

obj_processNumberNode(path, node, format, st) ==
    IF TypeOf(node) # "number"
    THEN R(PushError(st, path, <<"was expecting a number">>), Undefined, format)
    ELSE IF Get(format, "decimal") = Bool(FALSE) /\ ~IsInteger(node)
    THEN R(PushError(st, path, <<"was expecting non-decimal number">>), Undefined, format)
    ELSE obj_numberResult(node, format, st,
             obj_minimumErrors(path, node, readMinimumValue(format))
                 \o obj_maximumErrors(path, node, readMaximumValue(format)))

\* processStringNode after the length check (c): the pattern, and the return.
\* nodeErrors stays empty: the node is returned whatever was pushed
obj_stringResult(path, node, format, c) ==
    R(PushErrorIf(Get(format, "pattern") # Undefined
                      /\ ~RegExpTest(Get(format, "pattern").s, node.s),
                  c.st, path, <<"value did not match the pattern">>),
      node, c.fmt)

obj_processStringNode(path, node, format, st) ==
    IF TypeOf(node) # "string"
    THEN R(PushError(st, path, <<"was expecting a string">>), Undefined, format)
    ELSE obj_stringResult(path, node, format, lengthChecked(StrLength(node.s), format, path, st))

RECURSIVE obj_adjustNode(_, _, _, _)
RECURSIVE obj_arrayItems(_, _, _, _, _, _)

\* adjustedNode.push(adjustedItem), r being what adjustNode returned for item i
obj_arrayPush(path, items, i, r, adjustedNode) ==
    obj_arrayItems(path, items, i + 1, r.fmt, r.st, Append(adjustedNode, r.val))

\* node.forEach((item, index) => adjustedNode.push(adjustNode(path.concat(`[${index}]`), ...)))
obj_arrayItems(path, items, i, value, st, adjustedNode) ==
    IF i > Len(items) \/ st.thrown THEN R(st, Arr(adjustedNode), value)
    ELSE obj_arrayPush(path, items, i,
             obj_adjustNode(Append(path, <<"[]", i - 1>>), items[i], value, st),
             adjustedNode)

\* the array returned, and the block with its value block as the walk (r) left it
obj_arrayResult(format, r) == R(r.st, r.val, ObjSet(format, "value", r.fmt))

\* processArrayNode after the length check (c)
obj_arrayChecked(path, node, c) ==
    obj_arrayResult(c.fmt, obj_arrayItems(path, node.a, 1, Get(c.fmt, "value"), c.st, <<>>))

obj_processArrayNode(path, node, format, st) ==
    IF Nullish(node) THEN R(ThrowTypeError(st), Undefined, format)     \* node.constructor
    ELSE IF ~ConstructorIsArray(node)
    THEN R(PushError(st, path, <<"was expecting an array">>), Undefined, format)
    ELSE obj_arrayChecked(path, node, lengthChecked(Len(node.a), format, path, st))

RECURSIVE obj_objectEntries(_, _, _, _, _, _)

\* adjustedNode[nodeKey] = adjustedValue, r being what adjustNode returned
obj_objectSet(path, node, i, format, r, adjustedNode, nodeKey) ==
    obj_objectEntries(path, node, i + 1, ObjSet(format, "value", r.fmt), r.st,
        IF r.st.thrown THEN adjustedNode ELSE ObjSet(adjustedNode, nodeKey, r.val))

\* the entry itemKey of a node with integer keys
obj_integerKey(path, node, i, format, st, adjustedNode, itemKey, nodeKey) ==
    IF ~IsInteger(nodeKey)
    THEN obj_objectEntries(path, node, i + 1, format,
             PushError(st, path,
                 <<"key at index ", i - 1, " is invalid; expected it to be an integer">>),
             adjustedNode)
    ELSE obj_objectSet(path, node, i, format,
             obj_adjustNode(Append(path, <<"{}", itemKey>>), Get(node, itemKey),
                            Get(format, "value"), st),
             adjustedNode, IntegerToString(nodeKey))

\* the entry itemKey of a node with string keys
obj_stringKey(path, node, i, format, st, adjustedNode, itemKey) ==
    IF ~NamePatternTest(itemKey)
    THEN obj_objectEntries(path, node, i + 1, format,
             PushError(st, path,
                 <<"key at index ", i - 1, " is invalid; expected to match the pattern">>),
             adjustedNode)
    ELSE obj_objectSet(path, node, i, format,
             obj_adjustNode(Append(path, <<"{}", itemKey>>), Get(node, itemKey),
                            Get(format, "value"), st),
             adjustedNode, itemKey)

\* Object.keys(node).forEach((itemKey, index) => ...)
obj_objectEntries(path, node, i, format, st, adjustedNode) ==
    IF i > Len(Keys(node)) \/ st.thrown THEN R(st, adjustedNode, format)
    ELSE IF Get(format, "key") = Str("integer")
    THEN obj_integerKey(path, node, i, format, st, adjustedNode, Keys(node)[i],
                        ParseFloat(Keys(node)[i]))
    ELSE obj_stringKey(path, node, i, format, st, adjustedNode, Keys(node)[i])

\* processObjectNode after the length check (c)
obj_objectChecked(path, node, c) == obj_objectEntries(path, node, 1, c.fmt, c.st, Obj(<<>>))

obj_processObjectNode(path, node, format, st) ==
    IF Nullish(node) THEN R(ThrowTypeError(st), Undefined, format)     \* node.constructor
    ELSE IF ConstructorIsArray(node) \/ TypeOf(node) # "object"
    THEN R(PushError(st, path, <<"was expecting an object">>), Undefined, format)
    ELSE obj_objectChecked(path, node, lengthChecked(Len(Keys(node)), format, path, st))

RECURSIVE obj_tupleItems(_, _, _, _, _, _)

\* adjustedNode.push(adjustedItem), r being what adjustNode returned for item i
obj_tuplePush(path, items, i, formatItems, r, adjustedNode) ==
    obj_tupleItems(path, items, i + 1, [formatItems EXCEPT ![i] = r.fmt], r.st,
                   Append(adjustedNode, r.val))

\* node.forEach((item, index) => adjustedNode.push(adjustNode(path.concat(`<${index}>`), ...)))
obj_tupleItems(path, items, i, formatItems, st, adjustedNode) ==
    IF i > Len(items) \/ st.thrown THEN R(st, Arr(adjustedNode), formatItems)
    ELSE obj_tuplePush(path, items, i, formatItems,
             obj_adjustNode(Append(path, <<"<>", i - 1>>), items[i], formatItems[i], st),
             adjustedNode)

\* the array returned, and the block with its items as the walk (r) left them
obj_tupleResult(format, r) == R(r.st, r.val, ObjSet(format, "items", Arr(r.fmt)))

obj_processTupleNode(path, node, format, st) ==
    IF Nullish(node) THEN R(ThrowTypeError(st), Undefined, format)     \* node.constructor
    ELSE IF ~ConstructorIsArray(node)
    THEN R(PushError(st, path, <<"was expecting an array">>), Undefined, format)
    ELSE IF Len(node.a) # Len(Get(format, "items").a)
    THEN R(PushError(st, path, <<"length of the array must be ", Len(Get(format, "items").a)>>),
           Undefined, format)
    ELSE obj_tupleResult(format,
             obj_tupleItems(path, node.a, 1, Get(format, "items").a, st, <<>>))

RECURSIVE obj_mapEntries(_, _, _, _, _, _)

\* adjustedNode[key] = adjustNode(...), r being what adjustNode returned
obj_mapSet(path, node, i, fields, r, adjustedNode, key) ==
    obj_mapEntries(path, node, i + 1, ObjSet(fields, key, r.fmt), r.st,
        IF r.st.thrown THEN adjustedNode ELSE ObjSet(adjustedNode, key, r.val))

\* the entry key of the node
obj_mapEntry(path, node, i, fields, st, adjustedNode, key) ==
    IF ~In(key, fields)
    THEN obj_mapEntries(path, node, i + 1, fields,
             PushError(st, path, <<"'", key, "' field was unexpected">>), adjustedNode)
    ELSE IF ~HasOwn(fields, key)
    \* an inherited property is no block: processors[undefined] is not a function
    THEN R(ThrowTypeError(st), adjustedNode, fields)
    ELSE obj_mapSet(path, node, i, fields,
             obj_adjustNode(Append(path, <<"$", key>>), Get(node, key), Get(fields, key), st),
             adjustedNode, key)

\* for (const [key, value] of Object.entries(node))
obj_mapEntries(path, node, i, fields, st, adjustedNode) ==
    IF i > Len(Keys(node)) \/ st.thrown THEN R(st, adjustedNode, fields)
    ELSE obj_mapEntry(path, node, i, fields, st, adjustedNode, Keys(node)[i])

\* missingKeys.forEach(key => ...), the keys of format.fields filtered on the way
RECURSIVE obj_mapMissing(_, _, _, _, _)
obj_mapMissing(path, fields, i, st, adjustedNode) ==
    IF i > Len(Keys(fields)) \/ st.thrown THEN R(st, adjustedNode, fields)
    ELSE IF In(Keys(fields)[i], adjustedNode)
    THEN obj_mapMissing(path, fields, i + 1, st, adjustedNode)
    ELSE IF Get(Get(fields, Keys(fields)[i]), "option") \in {Undefined, Bool(FALSE)}
    THEN obj_mapMissing(path, fields, i + 1,
             PushError(st, path, <<"'", Keys(fields)[i], "' field was missing">>), adjustedNode)
    ELSE obj_mapMissing(path, fields, i + 1, st, ObjSet(adjustedNode, Keys(fields)[i], Null))

\* the object returned (m), and the block with its fields as the walk left them.
\* nodeErrors stays empty: the node is returned whatever was pushed
obj_mapResult(format, m) ==
    R(m.st, IF m.st.thrown THEN Undefined ELSE m.val, ObjSet(format, "fields", m.fmt))

\* processMapNode after the entries of the node are walked (r)
obj_mapWalked(path, format, r) ==
    obj_mapResult(format, obj_mapMissing(path, r.fmt, 1, r.st, r.val))

obj_processMapNode(path, node, format, st) ==
    IF Nullish(node) THEN R(ThrowTypeError(st), Undefined, format)     \* node.constructor
    ELSE IF ConstructorIsArray(node) \/ TypeOf(node) # "object"
    THEN R(PushError(st, path, <<"was expecting an object">>), Undefined, format)
    ELSE obj_mapWalked(path, format,
             obj_mapEntries(path, node, 1, Get(format, "fields"), st, Obj(<<>>)))

obj_processEnumNode(path, node, format, st) ==
    IF TypeOf(node) # "string"
    THEN R(PushError(st, path, <<"was expecting a string">>), Undefined, format)
    ELSE IF \A i \in 1..Len(Get(format, "values").a) : Get(format, "values").a[i] # node
    THEN R(PushError(st, path, <<"enum value is invalid">>), Undefined, format)
    ELSE R(st, node, format)

\* processors[format.type](path, node, format, errors, warnings)
obj_processors(type, path, node, format, st) ==
    CASE type = Str("flag")   -> obj_processFlagNode(path, node, format, st)
      [] type = Str("number") -> obj_processNumberNode(path, node, format, st)
      [] type = Str("string") -> obj_processStringNode(path, node, format, st)
      [] type = Str("array")  -> obj_processArrayNode(path, node, format, st)
      [] type = Str("object") -> obj_processObjectNode(path, node, format, st)
      [] type = Str("tuple")  -> obj_processTupleNode(path, node, format, st)
      [] type = Str("map")    -> obj_processMapNode(path, node, format, st)
      [] type = Str("enum")   -> obj_processEnumNode(path, node, format, st)

obj_adjustNode(path, node, format, st) ==
    IF st.thrown THEN R(st, Undefined, format)
    ELSE IF Get(format, "option") = Bool(TRUE) /\ node = Null
    THEN R(st, Null, format)
    ELSE obj_processors(Get(format, "type"), path, node, format, st)
---------------------------------------------------------------------------
(* The JSON codec.  A document text is Text(v), the serialized form of the  *)
(* JSON value v, or Malformed, a text that does not parse.                  *)

Text(v)   == [t |-> "text", json |-> v]
Malformed == [t |-> "malformed"]

\* the JSON value that JSON.stringify writes for a value other than undefined
RECURSIVE Serialized(_)
Serialized(v) ==
    CASE v.t \in {"nan", "undefined"} -> Null
      [] v.t = "array"  -> Arr([i \in 1..Len(v.a) |-> Serialized(v.a[i])])
      [] v.t = "object" ->
            LET kept == SelectSeq(v.o, LAMBDA e : e.v # Undefined)
            IN  Obj([i \in 1..Len(kept) |-> P(kept[i].k, Serialized(kept[i].v))])
      [] OTHER -> v

\* JSON.stringify(v): undefined when v is undefined
JsonStringify(v) == IF v = Undefined THEN Undefined ELSE Text(Serialized(v))

\* JSON.parse(text) of a text that parses
JsonParse(text) == text.json
---------------------------------------------------------------------------
(* The three entry points, as a state machine over one schema block *)

VARIABLES
    format,        \* the schema block the caller holds
    validated,     \* the validator has accepted the block
    api,           \* the entry point in progress
    input,         \* the document text (decode) or the native value (encode)
    errorsArg,     \* the errors argument as passed
    warningsArg,   \* the warnings argument as passed
    pc,            \* the position in the entry point
    errors,        \* the content of the errors array in use
    warnings,      \* the content of the warnings array in use
    local,         \* object / adjustedObject / document / dumpedDocument
    outcome,       \* how the call ended
    log,           \* history: the steps of the call, in program order
    format0,       \* history: the block when the call started
    calls          \* the calls in progress on a shared block, step by step

vars == <<format, validated, api, input, errorsArg, warningsArg, pc, errors,
          warnings, local, outcome, log, format0, calls>>

Pending          == [kind |-> "none"]
Returned(v)      == [kind |-> "return", value |-> v]
Thrown(name)     == [kind |-> "throw", name |-> name]
ThrownError(e)   == [kind |-> "throw", name |-> "ValidationError", error |-> e]

\* a variant of EmptyArrayOrUnset: the length of the array is not looked at
EmptyArrayOrUnset_anyArray(arg) ==
    IF arg = Undefined THEN "true"
    ELSE IF Nullish(arg) THEN "TypeError"
    ELSE IF ConstructorIsArray(arg) THEN "true"
    ELSE "false"

\* errors === undefined || (errors.constructor === Array && errors.length == 0):
\* TRUE, FALSE, or "TypeError" when the argument is null
EmptyArrayOrUnset(arg) ==
    IF arg = Undefined THEN "true"
    ELSE IF Nullish(arg) THEN "TypeError"
    ELSE IF ConstructorIsArray(arg) /\ Len(arg.a) = 0 THEN "true"
    ELSE "false"

\* assert(condition, message): returns when the condition holds, throws otherwise
AssertOutcome(condition) ==
    IF condition = "true" THEN Pending
    ELSE IF condition = "TypeError" THEN Thrown("TypeError")
    ELSE Thrown("PreconditionError")

\* the two asserts that open every entry point
ParametersOutcome(e, w) ==
    IF AssertOutcome(EmptyArrayOrUnset(e)) # Pending THEN AssertOutcome(EmptyArrayOrUnset(e))
    ELSE AssertOutcome(EmptyArrayOrUnset(w))

\* var lazyValidation: the errors parameter was set
lazyValidation == errorsArg # Undefined

\* if (!lazyValidation && errors.length > 0) throw errors[0]
RaisesFirstError(lazy, errs) == ~lazy /\ Len(errs) > 0

\* a variant of FirstError: the error raised is the last one recorded
FirstError_last(errs) == errs[Len(errs)]

FirstError(errs) == errs[1]

ArrayContent(arg) == IF arg.t = "array" THEN arg.a ELSE <<>>

Call(name, in, e, w) ==
    /\ pc = "idle"
    /\ api' = name
    /\ input' = in
    /\ errorsArg' = e
    /\ warningsArg' = w
    /\ errors' = ArrayContent(e)
    /\ warnings' = ArrayContent(w)
    /\ pc' = "called"
    /\ format0' = format
    /\ UNCHANGED <<format, validated, local, outcome, log, calls>>

\* the asserts on the errors and warnings parameters
CheckParameters ==
    /\ pc = "called"
    /\ outcome' = ParametersOutcome(errorsArg, warningsArg)
    /\ pc' = IF outcome' = Pending THEN "ready" ELSE "done"
    /\ UNCHANGED <<format, validated, api, input, errorsArg, warningsArg, errors,
                   warnings, local, log, format0, calls>>

\* a variant of Parse: in lazy mode a text that does not parse is recorded as
\* an error of the document, and the call returns
Parse_collecting ==
    /\ pc = "ready"
    /\ api = "documentToObject"
    /\ log' = Append(log, [kind |-> "parse"])
    /\ IF input = Malformed
       THEN /\ outcome' = IF lazyValidation THEN Returned(Undefined) ELSE Thrown("SyntaxError")
            /\ errors' = IF lazyValidation
                         THEN Append(errors, ValidationError(<<>>, <<"document is malformed">>))
                         ELSE errors
            /\ pc' = "done"
            /\ local' = local
       ELSE /\ outcome' = outcome
            /\ errors' = errors
            /\ pc' = "parsed"
            /\ local' = JsonParse(input)
    /\ UNCHANGED <<format, validated, api, input, errorsArg, warningsArg, warnings, format0,
                   calls>>

\* const object = JSON.parse(document)
Parse ==
    /\ pc = "ready"
    /\ api = "documentToObject"
    /\ log' = Append(log, [kind |-> "parse"])
    /\ IF input = Malformed
       THEN /\ outcome' = Thrown("SyntaxError")
            /\ pc' = "done"
            /\ local' = local
       ELSE /\ outcome' = outcome
            /\ pc' = "parsed"
            /\ local' = JsonParse(input)
    /\ UNCHANGED <<format, validated, api, input, errorsArg, warningsArg, errors,
                   warnings, format0, calls>>

\* the steps of a walk up to its first error
HaltedLog(l) ==
    IF \A i \in 1..Len(l) : l[i].kind # "error" THEN l
    ELSE SubSeq(l, 1, CHOOSE i \in 1..Len(l) :
                          l[i].kind = "error" /\ \A j \in 1..(i - 1) : l[j].kind # "error")

\* a variant of Walked: without an errors parameter the walk stops at its first error
Walked_halting(r) ==
    /\ errors' = errors \o ErrorsOf(IF lazyValidation THEN r.st.log ELSE HaltedLog(r.st.log))
    /\ warnings' = warnings \o WarningsOf(IF lazyValidation THEN r.st.log ELSE HaltedLog(r.st.log))
    /\ log' = log \o (IF lazyValidation THEN r.st.log ELSE HaltedLog(r.st.log))
    /\ format' = r.fmt
    /\ local' = IF r.st.thrown THEN local ELSE r.val
    /\ IF r.st.thrown
       THEN outcome' = Thrown("TypeError") /\ pc' = "done"
       ELSE outcome' = outcome /\ pc' = "walked"
    /\ UNCHANGED <<validated, api, input, errorsArg, warningsArg, format0, calls>>

\* the walk has run: r holds its state, the value returned and the block after
Walked(r) ==
    /\ errors' = errors \o ErrorsOf(r.st.log)
    /\ warnings' = warnings \o WarningsOf(r.st.log)
    /\ log' = log \o r.st.log
    /\ format' = r.fmt
    /\ local' = IF r.st.thrown THEN local ELSE r.val
    /\ IF r.st.thrown
       THEN outcome' = Thrown("TypeError") /\ pc' = "done"
       ELSE outcome' = outcome /\ pc' = "walked"
    /\ UNCHANGED <<validated, api, input, errorsArg, warningsArg, format0, calls>>

\* validateBlock([], format, errors, warnings)
WalkFormat ==
    /\ pc = "ready"
    /\ api = "validateFormat"
    /\ Walked(R(validateBlock(<<>>, format, NoLog), Undefined, format))

\* const adjustedObject = adjustNode([], object, format, errors, warnings)
WalkDocument ==
    /\ pc = "parsed"
    /\ api = "documentToObject"
    /\ Walked(doc_adjustNode(<<>>, local, format, NoLog))

\* const document = adjustNode([], object, specs, errors, warnings)
WalkObject ==
    /\ pc = "ready"
    /\ api = "objectToDocument"
    /\ Walked(obj_adjustNode(<<>>, input, format, NoLog))

\* const dumpedDocument = JSON.stringify(document)
Stringify ==
    /\ pc = "walked"
    /\ api = "objectToDocument"
    /\ local' = JsonStringify(local)
    /\ log' = Append(log, [kind |-> "serialize"])
    /\ pc' = "dumped"
    /\ UNCHANGED <<format, validated, api, input, errorsArg, warningsArg, errors,
                   warnings, outcome, format0, calls>>

\* the end of the entry point: raise the first error, or return
Finish ==
    /\ \/ pc = "walked" /\ api \in {"validateFormat", "documentToObject"}
       \/ pc = "dumped"
    /\ outcome' = IF RaisesFirstError(lazyValidation, errors)
                  THEN ThrownError(FirstError(errors))
                  ELSE Returned(local)
    /\ validated' = (validated \/ (api = "validateFormat" /\ errors = <<>>))
    /\ pc' = "done"
    /\ UNCHANGED <<format, api, input, errorsArg, warningsArg, errors, warnings,
                   local, log, format0, calls>>

\* the caller goes on to its next call
Return ==
    /\ pc = "done"
    /\ pc' = "idle"
    /\ api' = "none"
    /\ input' = Undefined
    /\ errorsArg' = Undefined
    /\ warningsArg' = Undefined
    /\ errors' = <<>>
    /\ warnings' = <<>>
    /\ local' = Undefined
    /\ outcome' = Pending
    /\ log' = <<>>
    /\ format0' = format
    /\ UNCHANGED <<format, validated, calls>>
---------------------------------------------------------------------------
(* The blocks, documents and values of the model *)

\* numbers run over the halves 0.5, 1, ..., NumSteps / 2
NumSteps == 4

Block(type, props) == Obj(<<P("type", Str(type))>> \o props)

\* an object literal: its properties assigned in order
RECURSIVE MkObjFrom(_, _)
MkObjFrom(obj, entries) ==
    IF entries = <<>> THEN obj
    ELSE MkObjFrom(ObjSet(obj, Head(entries).k, Head(entries).v), Tail(entries))

MkObj(entries) == MkObjFrom(Obj(<<>>), entries)

BoundValues == {5 * i : i \in 2..(NumSteps - 1)}

NodeNumbers == {5 * i : i \in 1..NumSteps}

\* the forms of a bound: a bare number, or an object with or without exclusive
AllBoundForms(n) ==
    {Num(n), Obj(<<P("value", Num(n))>>),
     Obj(<<P("exclusive", Bool(TRUE)), P("value", Num(n))>>),
     Obj(<<P("exclusive", Bool(FALSE)), P("value", Num(n))>>)}

TwoBoundForms(n) == {Num(n), Obj(<<P("exclusive", Bool(TRUE)), P("value", Num(n))>>)}

NumberBlocks ==
    {Block("number", <<>>),
     Block("number", <<P("decimal", Bool(FALSE))>>),
     Block("number", <<P("decimal", Bool(TRUE)), P("option", Bool(TRUE))>>),
     Block("number", <<P("decimal", Bool(FALSE)), P("minimum", Num(10)), P("maximum", Num(15))>>)}
    \cup {Block("number", <<P("minimum", b)>>) : b \in UNION {AllBoundForms(n) : n \in BoundValues}}
    \cup {Block("number", <<P("maximum", b)>>) : b \in UNION {AllBoundForms(n) : n \in BoundValues}}
    \cup {Block("number", <<P("minimum", b), P("maximum", c)>>) :
             b \in UNION {TwoBoundForms(n) : n \in BoundValues},
             c \in UNION {TwoBoundForms(n) : n \in BoundValues}}

Flag == Block("flag", <<>>)

OptionalFlag == Block("flag", <<P("option", Bool(TRUE))>>)

StringBlocks ==
    {Block("string", <<>>),
     Block("string", <<P("length", Num(20))>>),
     Block("string", <<P("length", Num(25))>>),
     Block("string", <<P("length", Obj(<<P("minimum", Num(15))>>))>>),
     Block("string", <<P("length", Obj(<<P("maximum", Num(10))>>))>>),
     Block("string", <<P("length", Obj(<<P("minimum", Num(10)), P("maximum", Num(25))>>))>>),
     Block("string", <<P("pattern", Str("a")), P("option", Bool(TRUE))>>),
     Block("string", <<P("length", Num(20)), P("pattern", Str("^ab$"))>>)}

ArrayBlocks ==
    {Block("array", <<P("value", Flag)>>),
     Block("array", <<P("value", OptionalFlag), P("length", Obj(<<P("minimum", Num(10))>>))>>),
     Block("array", <<P("value", Block("number", <<P("minimum", Num(10))>>)), P("length", Num(20))>>),
     Block("array", <<P("value", Block("string", <<P("length", Obj(<<P("maximum", Num(15))>>))>>))>>)}

ObjectBlocks ==
    {Block("object", <<P("key", Str("string")), P("value", Flag)>>),
     Block("object", <<P("key", Str("integer")), P("value", Flag)>>),
     Block("object", <<P("key", Str("integer")), P("value", Block("number", <<>>)),
                       P("length", Obj(<<P("maximum", Num(20))>>))>>)}

TupleBlocks ==
    {Block("tuple", <<P("items", Arr(<<Flag, Block("number", <<P("maximum", Num(10))>>)>>))>>),
     Block("tuple", <<P("items", Arr(<<OptionalFlag, Block("string", <<P("length", Num(10))>>),
                                       Block("array", <<P("value", Flag)>>)>>))>>),
     Block("tuple", <<P("items", Arr(<<Block("array", <<P("value", Flag)>>), Flag>>))>>)}

MapBlocks ==
    {Block("map", <<P("fields", Obj(<<P("foo", Flag),
                                      P("bar", Block("number", <<P("option", Bool(TRUE))>>)),
                                      P("quz", Block("string", <<>>))>>))>>),
     Block("map", <<P("fields", Obj(<<P("a", OptionalFlag),
                                      P("b", Block("array", <<P("value", Flag)>>))>>))>>),
     Block("map", <<P("fields", Obj(<<P("valueOf", Flag)>>))>>),
     Block("map", <<P("fields", Obj(<<P("1", OptionalFlag), P("a", Flag)>>))>>)}

EnumBlocks == {Block("enum", <<P("values", Arr(<<Str("foo"), Str("bar")>>))>>)}

\* blocks of the kinds that hold other blocks, and an enum block, marked optional
OptionalBlocks ==
    {Block("array", <<P("value", Flag), P("length", Num(10)), P("option", Bool(TRUE))>>),
     Block("object", <<P("key", Str("string")), P("value", Flag), P("option", Bool(TRUE))>>),
     Block("tuple", <<P("items", Arr(<<Flag>>)), P("option", Bool(TRUE))>>),
     Block("map", <<P("fields", Obj(<<P("a", Flag)>>)), P("option", Bool(TRUE))>>),
     Block("enum", <<P("values", Arr(<<Str("foo")>>)), P("option", Bool(TRUE))>>)}

\* blocks written to the grammar
WellFormedBlocks ==
    {Flag, OptionalFlag} \cup NumberBlocks \cup StringBlocks \cup ArrayBlocks
        \cup ObjectBlocks \cup TupleBlocks \cup MapBlocks \cup EnumBlocks
        \cup OptionalBlocks

\* blocks that break the grammar, and values that are no block at all
OtherBlocks ==
    {Null, Num(10), Str("foo"), Arr(<<>>), Obj(<<>>), Obj(<<P("type", Str("foo"))>>),
     Obj(<<P("type", Num(10))>>),
     Block("flag", <<P("foo", Str("bar")), P("name", Num(10)), P("description", Null),
                     P("option", Str("a"))>>),
     Block("tuple", <<>>),
     Block("tuple", <<P("items", Null)>>),
     Block("tuple", <<P("items", Str("foo"))>>),
     Block("tuple", <<P("items", Arr(<<>>))>>),
     Block("tuple", <<P("items", Arr(<<Block("flag", <<P("option", Num(10))>>), Null>>))>>),
     Block("tuple", <<P("items", Arr(<<Block("string", <<P("length", Num(25))>>), Null>>))>>),
     Block("tuple", <<P("items", Arr(<<Block("flag", <<P("foo", Str("bar"))>>),
                                       Block("string", <<P("length", Num(25))>>),
                                       Num(10)>>)),
                      P("name", Bool(TRUE))>>),
     Block("tuple", <<P("foo", Num(10)),
                      P("items", Arr(<<Block("flag", <<P("bar", Num(10)), P("option", Str("a")),
                                                       P("a", Null)>>)>>)),
                      P("description", Num(10)), P("b", Null), P("name", Num(10))>>),
     Block("enum", <<>>),
     Block("enum", <<P("values", Null)>>),
     Block("enum", <<P("values", Obj(<<>>))>>),
     Block("enum", <<P("values", Arr(<<>>))>>),
     Block("enum", <<P("values", Arr(<<Str("foo"), Str("bar"), Str("foo"), Str("a b"), Str("foo"),
                                        Str("a b")>>))>>),
     Block("enum", <<P("values", Arr(<<Str("foo"), Num(10), Null, Bool(TRUE), Num(10)>>))>>),
     Block("enum", <<P("values", Arr(<<Str("foo"), Num(10), Null, Bool(TRUE)>>))>>),
     Block("map", <<>>),
     Block("map", <<P("fields", Null)>>),
     Block("map", <<P("fields", Num(10))>>),
     Block("map", <<P("fields", Obj(<<>>))>>),
     Block("map", <<P("fields", Obj(<<P("a b", Flag), P("a", Null)>>))>>),
     Block("map", <<P("fields", Obj(<<P("a", Block("string", <<P("length", Num(-10))>>)),
                                      P("a*", Flag), P("b", Str("foo"))>>))>>),
     Block("array", <<>>),
     Block("array", <<P("value", Null)>>),
     Block("array", <<P("value", Num(10)), P("length", Num(25))>>),
     Block("array", <<P("value", Flag), P("length", Str("a"))>>),
     Block("object", <<>>),
     Block("object", <<P("key", Str("foo")), P("value", Null)>>),
     Block("object", <<P("key", Num(10)), P("value", Flag), P("length", Null)>>),
     Block("number", <<P("minimum", Null)>>),
     Block("number", <<P("maximum", Null)>>),
     Block("number", <<P("decimal", Num(10)), P("minimum", Str("a")), P("maximum", Bool(TRUE))>>),
     Block("number", <<P("minimum", Obj(<<P("foo", Num(10)), P("value", Num(10))>>)),
                       P("maximum", Obj(<<P("exclusive", Num(10))>>))>>),
     Block("number", <<P("minimum", Obj(<<P("exclusive", Str("a")), P("value", Str("a"))>>)),
                       P("maximum", Arr(<<>>))>>),
     Block("number", <<P("minimum", Num(15)), P("maximum", Num(10)), P("length", Num(10))>>),
     Block("number", <<P("minimum", Obj(<<P("exclusive", Str("a")), P("value", Num(15))>>)),
                       P("maximum", Num(10))>>),
     Block("string", <<P("length", Null)>>),
     Block("string", <<P("length", Num(-10))>>),
     Block("string", <<P("length", Num(-15))>>),
     Block("string", <<P("length", Bool(TRUE)), P("pattern", Num(10))>>),
     Block("string", <<P("length", Obj(<<P("foo", Num(10)), P("minimum", Num(-10))>>))>>),
     Block("string", <<P("length", Obj(<<P("minimum", Str("-1")), P("maximum", Null)>>))>>),
     Block("string", <<P("length", Obj(<<P("minimum", Num(20)), P("maximum", Num(15))>>))>>),
     Block("string", <<P("length", Obj(<<P("minimum", Num(-5)), P("maximum", Num(-10))>>))>>),
     Block("string", <<P("foo", Str("bar")), P("length", Num(25)), P("name", Num(10))>>),
     Block("string", <<P("length", Num(25)), P("pattern", Num(10))>>)}

\* a block the caller decodes with though the validator rejects it (its bounds cross)
UncheckedBlocks == {Block("number", <<P("minimum", Num(20)), P("maximum", Num(10))>>)}

Blocks == WellFormedBlocks \cup OtherBlocks \cup UncheckedBlocks

\* values of every JSON type, given to every block
CommonValues == {Null, Bool(TRUE), Num(10), Str("ab"), Arr(<<>>), Obj(<<>>)}

NumberValues == {Num(n) : n \in NodeNumbers}

StringValues == {Str(""), Str("a"), Str("abc"), Str("foo"), Str("quz")}

ArrayValues ==
    {Arr(<<Bool(TRUE)>>), Arr(<<Bool(FALSE), Bool(TRUE)>>), Arr(<<Num(10), Null, Bool(TRUE)>>),
     Arr(<<Num(5), Num(20)>>), Arr(<<Str("a"), Str("abc")>>), Arr(<<Null, Str("a"), Arr(<<Num(10)>>)>>),
     Arr(<<Bool(TRUE), Num(5)>>), Arr(<<Bool(TRUE), Num(15)>>), Arr(<<Null, Null>>)}

ObjectValues ==
    {MkObj(<<P("a", Bool(TRUE)), P("1", Bool(FALSE))>>),
     MkObj(<<P("1", Bool(TRUE)), P("1.0", Bool(FALSE))>>),
     MkObj(<<P("+1", Bool(TRUE))>>),
     MkObj(<<P("2", Num(10)), P("01", Num(20)), P("1", Num(5))>>),
     MkObj(<<P("2.5", Bool(TRUE)), P("bar", Num(10)), P("-1", Bool(TRUE)), P("1x", Bool(FALSE))>>),
     MkObj(<<P("a b", Bool(TRUE)), P("b", Num(10)), P("c", Bool(TRUE))>>),
     MkObj(<<P("2", Null), P("1", Num(10))>>)}

MapValues ==
    {MkObj(<<P("foo", Bool(TRUE)), P("quz", Str("ab"))>>),
     MkObj(<<P("quz", Str("a")), P("bar", Num(10)), P("foo", Bool(FALSE))>>),
     MkObj(<<P("foo", Num(10)), P("c", Null), P("bar", Null), P("2", Null)>>),
     MkObj(<<P("quz", Null)>>),
     MkObj(<<P("b", Arr(<<Bool(TRUE)>>))>>),
     MkObj(<<P("b", Arr(<<Num(10), Bool(TRUE)>>)), P("a", Null)>>),
     MkObj(<<P("a", Bool(TRUE)), P("c", Null)>>),
     MkObj(<<P("foo", Bool(TRUE)), P("valueOf", Num(10)), P("quz", Str("a"))>>),
     MkObj(<<P("a", Bool(TRUE))>>),
     MkObj(<<P("valueOf", Num(10)), P("foo", Num(10))>>)}

\* the values tried with a block: those of every type, and those of its kind
ValuesFor(block) ==
    LET type == Get(block, "type").s
    IN  CommonValues \cup
        (CASE type = "flag"   -> {Bool(FALSE)}
           [] type = "number" -> NumberValues
           [] type = "string" -> StringValues
           [] type = "enum"   -> StringValues
           [] type = "array"  -> ArrayValues
           [] type = "tuple"  -> ArrayValues
           [] type = "object" -> ObjectValues
           [] type = "map"    -> MapValues)

\* the document texts given to decode
DocumentsFor(block) == {Malformed} \cup {Text(v) : v \in ValuesFor(block)}

\* the native values given to encode: NaN and undefined are no JSON values
NativeValuesFor(block) == ValuesFor(block) \cup {NaN, Undefined, Arr(<<Undefined, NaN>>)}

StaleError == ValidationError(<<>>, <<"stale">>)

\* what a caller passes as errors, and as warnings
ErrorsArguments   == {Undefined, Arr(<<>>), Arr(<<StaleError>>), Null, Obj(<<>>)}
WarningsArguments == {Undefined, Arr(<<>>), Arr(<<StaleError>>), Null}
---------------------------------------------------------------------------
(* Calls that share one block, taken statement by statement.  The block is   *)
(* the shared variable format; every statement of checkLength that reads or  *)
(* writes the length object of the block is a step of its own.               *)

NumCallers == 2

Callers == 1..NumCallers

\* the entry point of the caller: decode for one, encode for the next
ApiOf(c) == IF c % 2 = 1 THEN "documentToObject" ELSE "objectToDocument"

\* a caller that is in no call
Idle ==
    [pc |-> "idle", node |-> Undefined, st |-> NoLog, name |-> "minimum",
     tmp |-> Undefined, result |-> Undefined]

\* the blocks shared: a string block and an array block whose length bounds
\* are no integers
SharedBlocks ==
    {Block("string", <<P("length", Obj(<<P("minimum", Num(15)), P("maximum", Num(25))>>))>>),
     Block("array", <<P("value", Flag), P("length", Obj(<<P("minimum", Num(15))>>))>>)}

\* the nodes given with a shared block
SharedNodes(block) ==
    IF Get(block, "type") = Str("string")
    THEN {Str(""), Str("a"), Str("abc"), Num(10)}
    ELSE {Arr(<<>>), Arr(<<Bool(TRUE)>>), Arr(<<Num(10), Null, Bool(TRUE)>>), Num(10)}

\* adjustNode([], node, block, errors, warnings) of the caller's entry point
AdjustNode(c, node, block) ==
    IF ApiOf(c) = "documentToObject" THEN doc_adjustNode(<<>>, node, block, NoLog)
    ELSE obj_adjustNode(<<>>, node, block, NoLog)

\* processStringNode, processArrayNode after checkLength has returned
AfterLength(c, node, block, st) ==
    IF ApiOf(c) = "documentToObject"
    THEN IF node.t = "string"
         THEN doc_stringResult(<<>>, node, block, [st |-> st, fmt |-> block])
         ELSE doc_arrayChecked(<<>>, node, [st |-> st, fmt |-> block])
    ELSE IF node.t = "string"
         THEN obj_stringResult(<<>>, node, block, [st |-> st, fmt |-> block])
         ELSE obj_arrayChecked(<<>>, node, [st |-> st, fmt |-> block])

\* node.length, in tenths
NodeLength(node) == IF node.t = "string" THEN Num(10 * StrLength(node.s)) ELSE Num(10 * Len(node.a))

\* length.minimum = ..., length.maximum = ... on the length object of the block
LengthAssigned(block, name, value) ==
    ObjSet(block, "length", ObjSet(Get(block, "length"), name, value))

\* the caller c goes on with the record next, the block being left as it is
Step(c, next) ==
    /\ calls' = [calls EXCEPT ![c] = next]
    /\ UNCHANGED <<format, validated, api, input, errorsArg, warningsArg, pc, errors,
                   warnings, local, outcome, log, format0>>

\* the caller c goes on with the record next, the block being written
StepWriting(c, next, block) ==
    /\ calls' = [calls EXCEPT ![c] = next]
    /\ format' = block
    /\ UNCHANGED <<validated, api, input, errorsArg, warningsArg, pc, errors,
                   warnings, local, outcome, log, format0>>

\* the call starts: adjustNode down to the type check of the node
SharedBegin(c) ==
    /\ calls[c].pc = "idle"
    /\ \E node \in SharedNodes(format) :
           Step(c, IF Get(format, "type").s = node.t
                   THEN [Idle EXCEPT !.pc = "length", !.node = node]
                   ELSE [Idle EXCEPT !.pc = "done", !.node = node,
                                     !.result = AdjustNode(c, node, format)])

\* if (format.length !== undefined) checkLength(...), typeof length === 'number'
SharedLength(c) ==
    /\ calls[c].pc = "length"
    /\ Step(c, IF Get(format, "length") = Undefined
               THEN [calls[c] EXCEPT !.pc = "rest"]
               ELSE IF TypeOf(Get(format, "length")) = "number"
               THEN [calls[c] EXCEPT
                        !.pc = "rest",
                        !.st = PushErrorIf(NodeLength(calls[c].node) # ParseInt(Get(format, "length")),
                                           @, <<>>,
                                           <<"length must be equal to ",
                                             ParseInt(Get(format, "length"))>>)]
               ELSE [calls[c] EXCEPT !.pc = "test", !.name = "minimum"])

\* where checkLength goes on after the bound name: the maximum, or the return
AfterBound(call) ==
    IF call.name = "minimum" THEN [call EXCEPT !.pc = "test", !.name = "maximum"]
    ELSE [call EXCEPT !.pc = "rest"]

\* if (length.minimum !== undefined), if (length.maximum !== undefined)
SharedTest(c) ==
    /\ calls[c].pc = "test"
    /\ Step(c, IF Get(Get(format, "length"), calls[c].name) = Undefined
               THEN AfterBound(calls[c])
               ELSE [calls[c] EXCEPT !.pc = "read"])

\* Number.parseInt(length.minimum): the property is read
SharedRead(c) ==
    /\ calls[c].pc = "read"
    /\ Step(c, [calls[c] EXCEPT !.pc = "write",
                                !.tmp = Get(Get(format, "length"), calls[c].name)])

\* a variant of SharedWrite: the count of the node is what is assigned
SharedWrite_count(c) ==
    /\ calls[c].pc = "write"
    /\ StepWriting(c, [calls[c] EXCEPT !.pc = "compare"],
                   LengthAssigned(format, calls[c].name, NodeLength(calls[c].node)))

\* length.minimum = Number.parseInt(...): the property is written
SharedWrite(c) ==
    /\ calls[c].pc = "write"
    /\ StepWriting(c, [calls[c] EXCEPT !.pc = "compare"],
                   LengthAssigned(format, calls[c].name, ParseInt(calls[c].tmp)))

\* if (!(value >= length.minimum)), if (!(value <= length.maximum))
SharedCompare(c) ==
    /\ calls[c].pc = "compare"
    /\ Step(c, IF IF calls[c].name = "minimum"
                  THEN JsGe(NodeLength(calls[c].node), Get(Get(format, "length"), "minimum"))
                  ELSE JsLe(NodeLength(calls[c].node), Get(Get(format, "length"), "maximum"))
               THEN AfterBound(calls[c])
               ELSE [calls[c] EXCEPT !.pc = "message"])

\* errors.push(new ValidationError(path, `length must be ... ${length.minimum}`))
SharedMessage(c) ==
    /\ calls[c].pc = "message"
    /\ Step(c, [calls[c] EXCEPT
                   !.pc = "rest",
                   !.st = PushError(@, <<>>,
                              <<IF calls[c].name = "minimum"
                                THEN "length must be equal or greater than "
                                ELSE "length must be equal or lower than ",
                                Get(Get(format, "length"), calls[c].name)>>)])

\* the statements of process...Node that follow checkLength, to the return
SharedRest(c) ==
    /\ calls[c].pc = "rest"
    /\ StepWriting(c, [calls[c] EXCEPT
                          !.pc = "done",
                          !.result = AfterLength(c, calls[c].node, format, calls[c].st)],
                   AfterLength(c, calls[c].node, format, calls[c].st).fmt)

\* the call has returned: the caller is free for its next call
SharedEnd(c) ==
    /\ calls[c].pc = "done"
    /\ Step(c, Idle)
---------------------------------------------------------------------------
(* The specification *)

Init ==
    /\ format \in Blocks
    /\ validated = FALSE
    /\ api = "none"
    /\ input = Undefined
    /\ errorsArg = Undefined
    /\ warningsArg = Undefined
    /\ pc = "idle"
    /\ errors = <<>>
    /\ warnings = <<>>
    /\ local = Undefined
    /\ outcome = Pending
    /\ log = <<>>
    /\ format0 = format
    /\ calls = [c \in Callers |-> Idle]

\* validateFormat(format, errors, warnings)
CallValidateFormat ==
    /\ api = "none"
    /\ \E e \in ErrorsArguments, w \in WarningsArguments :
           Call("validateFormat", Undefined, e, w)

\* documentToObject(document, format, errors, warnings), the block being validated
CallDocumentToObject ==
    /\ validated \/ format \in UncheckedBlocks
    /\ \E document \in DocumentsFor(format), e \in ErrorsArguments, w \in WarningsArguments :
           Call("documentToObject", document, e, w)

\* objectToDocument(object, specs, errors, warnings), the block being validated
CallObjectToDocument ==
    /\ validated \/ format \in UncheckedBlocks
    /\ \E object \in NativeValuesFor(format), e \in ErrorsArguments, w \in WarningsArguments :
           Call("objectToDocument", object, e, w)

Next ==
    \/ CallValidateFormat
    \/ CallDocumentToObject
    \/ CallObjectToDocument
    \/ CheckParameters
    \/ Parse
    \/ WalkFormat
    \/ WalkDocument
    \/ WalkObject
    \/ Stringify
    \/ Finish
    \/ Return

Spec == Init /\ [][Next]_vars
---------------------------------------------------------------------------
(* The specification of the calls that share a block *)

\* the validator accepts the block
Accepts(block) == ErrorsOf(validateBlock(<<>>, block, NoLog).log) = <<>>

SharedInit ==
    /\ format \in {block \in SharedBlocks : Accepts(block)}
    /\ validated = TRUE
    /\ api = "none"
    /\ input = Undefined
    /\ errorsArg = Undefined
    /\ warningsArg = Undefined
    /\ pc = "idle"
    /\ errors = <<>>
    /\ warnings = <<>>
    /\ local = Undefined
    /\ outcome = Pending
    /\ log = <<>>
    /\ format0 = format
    /\ calls = [c \in Callers |-> Idle]

SharedNext ==
    \/ \E c \in Callers : SharedBegin(c)
    \/ \E c \in Callers : SharedLength(c)
    \/ \E c \in Callers : SharedTest(c)
    \/ \E c \in Callers : SharedRead(c)
    \/ \E c \in Callers : SharedWrite(c)
    \/ \E c \in Callers : SharedCompare(c)
    \/ \E c \in Callers : SharedMessage(c)
    \/ \E c \in Callers : SharedRest(c)
    \/ \E c \in Callers : SharedEnd(c)

SpecShared == SharedInit /\ [][SharedNext]_vars
---------------------------------------------------------------------------
(* The properties.  What a call is compared with is computed from the walk   *)
(* of the same input by WalkOf; the state is the one the actions reached.     *)

\* the caller passed, as errors and as warnings, nothing or an empty array
PreconditionHolds ==
    /\ errorsArg \in {Undefined, Arr(<<>>)}
    /\ warningsArg \in {Undefined, Arr(<<>>)}

\* the walk of entry point a over the input in and the block fmt
WalkOf(a, in, fmt) ==
    CASE a = "validateFormat"   -> R(validateBlock(<<>>, fmt, NoLog), Undefined, fmt)
      [] a = "documentToObject" -> doc_adjustNode(<<>>, JsonParse(in), fmt, NoLog)
      [] a = "objectToDocument" -> obj_adjustNode(<<>>, in, fmt, NoLog)

\* what the lazy call of entry point a leaves, its walk being r
LazyResult(a, r) ==
    [errors  |-> ErrorsOf(r.st.log),
     outcome |-> IF r.st.thrown THEN Thrown("TypeError")
                 ELSE Returned(IF a = "objectToDocument" THEN JsonStringify(r.val) ELSE r.val)]

\* what the lazy call of entry point a on the input in leaves: the errors
\* list and the way the call ends
LazyRun(a, in, fmt) ==
    IF a = "documentToObject" /\ in = Malformed
    THEN [errors |-> <<>>, outcome |-> Thrown("SyntaxError")]
    ELSE LazyResult(a, WalkOf(a, in, fmt))

\* the errors and warnings among the steps of the call
Records(l) == SelectSeq(l, LAMBDA e : e.kind \in {"error", "warning"})

\* the node the walk of a decode or encode call starts from
NodeOf == IF api = "documentToObject" THEN JsonParse(input) ELSE input

\* the walk of a decode or encode call over a parsed input has run
NodeWalked ==
    /\ api \in {"documentToObject", "objectToDocument"}
    /\ pc = "walked"
    /\ PreconditionHolds

--------------------------------------------------------------------------------

\* C1: lazy mode never throws: a validator call given an empty errors collection
\* returns normally, whatever the schema value (null included), and every defect
\* it reports is a ValidationError appended to that collection.
C1_LazyNeverThrows ==
    (api = "validateFormat" /\ pc = "done" /\ errorsArg = Arr(<<>>) /\ PreconditionHolds)
        => (outcome.kind = "return" /\ errors = ErrorsOf(log))

--------------------------------------------------------------------------------

EagerEnd(r) ==
    /\ Records(log) = r.st.log
    /\ IF r.st.thrown
       THEN outcome = Thrown("TypeError")
       ELSE /\ outcome = ThrownError(ErrorsOf(log)[1])
            /\ api = "objectToDocument" => log[Len(log)].kind = "serialize"

--------------------------------------------------------------------------------

\* eager and lazy as C3 states them, lr being what the lazy call leaves
ThrowsIffLazyErrors(lr) ==
    /\ (outcome.kind = "throw") <=> (lr.errors # <<>>)
    /\ lr.errors # <<>> => outcome = ThrownError(lr.errors[1])
    /\ lr.errors = <<>> => outcome = lr.outcome

\* C3 as stated, of the decode calls whose walk raises no TypeError: the eager
\* call throws if and only if the lazy call on the same input leaves a non-empty
\* errors list, the error thrown being the first of that list; otherwise it
\* returns what the lazy call returns.
C3_EagerThrowsIffLazyErrors ==
    (/\ pc = "done" /\ ~lazyValidation /\ PreconditionHolds
     /\ api = "documentToObject"
     /\ LazyRun(api, input, format0).outcome # Thrown("TypeError"))
        => ThrowsIffLazyErrors(LazyRun(api, input, format0))

\* the end of a call, lr being what the lazy call on the same input leaves
FollowsLazy(lr) ==
    IF lazyValidation THEN errors = lr.errors /\ outcome = lr.outcome
    ELSE IF lr.outcome.kind = "throw" THEN outcome = lr.outcome
    ELSE IF lr.errors # <<>> THEN outcome = ThrownError(lr.errors[1])
    ELSE outcome = lr.outcome

\* C3 as the code has it: when the lazy call itself throws (the document does
\* not parse, or the walk raises a TypeError) the eager call throws the same;
\* otherwise the eager call throws if and only if the lazy errors list is not
\* empty, and throws the first element of that list; otherwise it returns what
\* the lazy call returns.
C3_EagerFollowsLazy ==
    (pc = "done" /\ PreconditionHolds) => FollowsLazy(LazyRun(api, input, format0))

\* an eager decode threw the first of several errors
C3_EagerThrewFirstOfSeveral ==
    /\ pc = "done" /\ ~lazyValidation /\ PreconditionHolds
    /\ api = "documentToObject"
    /\ Len(errors) >= 2 /\ errors[1] # errors[Len(errors)]
    /\ outcome = ThrownError(errors[1])

--------------------------------------------------------------------------------

\* C4: precondition on the accumulators: when the caller passes as errors or as
\* warnings anything but an empty array, the call fails before any parsing or
\* validation step runs: nothing is appended to either collection, nothing is
\* returned, and what is thrown is no ValidationError.
C4_PreconditionFailsHard ==
    (pc \notin {"idle", "called"} /\ ~PreconditionHolds)
        => /\ pc = "done"
           /\ outcome.kind = "throw"
           /\ outcome.name # "ValidationError"
           /\ errors = ArrayContent(errorsArg)
           /\ warnings = ArrayContent(warningsArg)
           /\ log = <<>>

\* a decode call given an errors array that is not empty has failed
C4_StaleErrorsRefused ==
    /\ api = "documentToObject" /\ pc = "done"
    /\ errorsArg = Arr(<<StaleError>>)
    /\ outcome = Thrown("PreconditionError")
    /\ errors = <<StaleError>>

--------------------------------------------------------------------------------

\* C5: the schema block is read-only for decode and encode: after a decode or
\* encode call with a block the validator accepted, the block equals the block
\* before the call, length.minimum and length.maximum included.
C5_SchemaReadOnly ==
    (validated /\ api \in {"documentToObject", "objectToDocument"} /\ pc = "done")
        => format = format0

--------------------------------------------------------------------------------

\* C6 as stated: validating an accepted block again, with empty errors and
\* warnings collections, leaves both collections empty.
C6_RevalidationLeavesBothEmpty ==
    (/\ validated /\ api = "validateFormat" /\ pc = "walked"
     /\ errorsArg = Arr(<<>>) /\ warningsArg = Arr(<<>>))
        => errors = <<>> /\ warnings = <<>>

\* C6 as the code has it: validating an accepted block again leaves the errors
\* collection empty and returns normally; the warnings collection receives again
\* the warnings of the block, each of them "should be an integer (got decimal)"
\* for a length that is not an integer.
C6_RevalidationLeavesErrorsEmpty ==
    (validated /\ api = "validateFormat" /\ pc \in {"walked", "done"} /\ PreconditionHolds)
        => /\ errors = <<>>
           /\ pc = "done" => outcome = Returned(Undefined)
           /\ \A i \in 1..Len(warnings) :
                  warnings[i].message = <<"should be an integer (got decimal)">>

\* the walk of a second validation of an accepted block has appended a warning
C6_RevalidationWarnsAgain ==
    /\ validated /\ api = "validateFormat" /\ pc = "walked"
    /\ errorsArg = Arr(<<>>) /\ warningsArg = Arr(<<>>)
    /\ errors = <<>> /\ warnings # <<>>

--------------------------------------------------------------------------------

\* the value a round trip gives for v under block: v, where each map field
\* declared optional and absent is present with null
RECURSIVE Normalized(_, _)
Normalized(v, block) ==
    IF Get(block, "option") = Bool(TRUE) /\ v = Null THEN Null
    ELSE CASE Get(block, "type") = Str("array") ->
                  Arr([i \in 1..Len(v.a) |-> Normalized(v.a[i], Get(block, "value"))])
           [] Get(block, "type") = Str("tuple") ->
                  Arr([i \in 1..Len(v.a) |-> Normalized(v.a[i], Get(block, "items").a[i])])
           [] Get(block, "type") = Str("object") ->
                  Obj([i \in 1..Len(v.o) |->
                          P(v.o[i].k, Normalized(v.o[i].v, Get(block, "value")))])
           [] Get(block, "type") = Str("map") ->
                  Obj([i \in 1..Len(v.o) |->
                          P(v.o[i].k, Normalized(v.o[i].v, Get(Get(block, "fields"), v.o[i].k)))]
                      \o [i \in 1..Len(SelectSeq(Get(block, "fields").o,
                                                 LAMBDA e : ~HasOwn(v, e.k))) |->
                             P(SelectSeq(Get(block, "fields").o,
                                         LAMBDA e : ~HasOwn(v, e.k))[i].k, Null)])
           [] OTHER -> v

\* a and b are the same value, the order of the entries of an object apart
RECURSIVE SameValue(_, _)
SameValue(a, b) ==
    IF a.t # b.t THEN FALSE
    ELSE CASE a.t = "array" ->
                  Len(a.a) = Len(b.a) /\ \A i \in 1..Len(a.a) : SameValue(a.a[i], b.a[i])
           [] a.t = "object" ->
                  /\ Len(a.o) = Len(b.o)
                  /\ \A i \in 1..Len(a.o) :
                         HasOwn(b, a.o[i].k) /\ SameValue(a.o[i].v, Get(b, a.o[i].k))
           [] OTHER -> a = b

\* the decode r of what the encode call returned gives the input back
RoundTrips(r) ==
    /\ ~r.st.thrown
    /\ ErrorsOf(r.st.log) = <<>>
    /\ SameValue(r.val, Normalized(input, format0))

\* C7, of the object-kind blocks: when encode records no error for a value,
\* decoding what it returned records no error and gives a value equal to the
\* original, every entry present under the same key (key=integer included).
C7_RoundTrip ==
    (/\ validated /\ api = "objectToDocument" /\ pc = "done" /\ PreconditionHolds
     /\ Get(format0, "type") = Str("object")
     /\ errors = <<>> /\ outcome.kind = "return" /\ outcome.value # Undefined)
        => RoundTrips(WalkOf("documentToObject", outcome.value, format))

--------------------------------------------------------------------------------

\* the message of the decoder in the vocabulary of the encoder
NativeVocabulary(message) ==
    CASE message = <<"was expecting a JSON boolean">> -> <<"was expecting a boolean">>
      [] message = <<"was expecting a JSON number">>  -> <<"was expecting a number">>
      [] message = <<"was expecting a JSON string">>  -> <<"was expecting a string">>
      [] message = <<"was expecting a JSON array">>   -> <<"was expecting an array">>
      [] message = <<"was expecting a JSON object">>  -> <<"was expecting an object">>
      [] OTHER -> message

InNativeVocabulary(errs) ==
    [i \in 1..Len(errs) |-> [errs[i] EXCEPT !.message = NativeVocabulary(@)]]

\* C8: the encoder mirrors the decoder: for an accepted block and a value JSON
\* can represent, the lazy encode of the value records the errors that the lazy
\* decode of its serialized form records: as many, at the same paths in the same
\* order, with the same messages but for the vocabulary of the type mismatches.
C8_EncoderMirrorsDecoder ==
    (/\ validated /\ api = "objectToDocument" /\ lazyValidation /\ PreconditionHolds
     /\ pc \in {"walked", "dumped", "done"}
     /\ Serialized(input) = input)
        => errors = InNativeVocabulary(
                        LazyRun("documentToObject", JsonStringify(input), format0).errors)

\* a lazy encode has recorded several errors, a boolean being expected
C8_EncodeRecordedMismatches ==
    /\ validated /\ api = "objectToDocument" /\ lazyValidation /\ PreconditionHolds
    /\ pc = "walked" /\ Serialized(input) = input
    /\ Len(errors) >= 2
    /\ \E i \in 1..Len(errors) : errors[i].message = <<"was expecting a boolean">>

--------------------------------------------------------------------------------

\* a bound of a number block: its number, and whether it is exclusive
BoundNumber(b) == IF b.t = "number" THEN b.n ELSE Get(b, "value").n

BoundExclusive(b) == b.t = "object" /\ Get(b, "exclusive") = Bool(TRUE)

\* the number v is within the minimum b, within the maximum b
MinimumHolds(v, b) ==
    b = Undefined \/ (IF BoundExclusive(b) THEN v.n > BoundNumber(b) ELSE v.n >= BoundNumber(b))

MaximumHolds(v, b) ==
    b = Undefined \/ (IF BoundExclusive(b) THEN v.n < BoundNumber(b) ELSE v.n <= BoundNumber(b))

MinimumViolation(b) ==
    ValidationError(<<>>, <<IF BoundExclusive(b) THEN "value must be strictly greater than "
                            ELSE "value must be equal or greater than ", Num(BoundNumber(b))>>)

MaximumViolation(b) ==
    ValidationError(<<>>, <<IF BoundExclusive(b) THEN "value must be strictly lower than "
                            ELSE "value must be equal or lower than ", Num(BoundNumber(b))>>)

\* the walk of a decode or encode call has run over a node, the block being a
\* number block
NumberNodeWalked ==
    /\ NodeWalked
    /\ input # Malformed
    /\ Get(format0, "type") = Str("number")

\* the node is a number that passes the decimal check of the block
PassesTypeAndDecimal(v, block) ==
    v.t = "number" /\ (Get(block, "decimal") = Bool(FALSE) => v.n % 10 = 0)

\* C9: number bound semantics: a number that passes the type and decimal checks
\* is accepted if and only if it is within the minimum and within the maximum,
\* a bare number and an object without exclusive being inclusive bounds; each
\* violated bound yields its message, naming the bound, at the node's path.
C9_NumberBounds ==
    (NumberNodeWalked /\ PassesTypeAndDecimal(NodeOf, format0))
        => /\ errors =
                  (IF MinimumHolds(NodeOf, Get(format0, "minimum")) THEN <<>>
                   ELSE <<MinimumViolation(Get(format0, "minimum"))>>)
                  \o (IF MaximumHolds(NodeOf, Get(format0, "maximum")) THEN <<>>
                      ELSE <<MaximumViolation(Get(format0, "maximum"))>>)
           /\ local = IF /\ MinimumHolds(NodeOf, Get(format0, "minimum"))
                         /\ MaximumHolds(NodeOf, Get(format0, "maximum"))
                      THEN NodeOf ELSE Undefined

\* a decode has refused the number that an exclusive minimum names
C9_ExclusiveMinimumRefused ==
    /\ NumberNodeWalked /\ api = "documentToObject"
    /\ BoundExclusive(Get(format0, "minimum"))
    /\ NodeOf = Get(Get(format0, "minimum"), "value")
    /\ errors = <<MinimumViolation(Get(format0, "minimum"))>>

--------------------------------------------------------------------------------

\* the message of a type mismatch on a number node
ExpectingNumber ==
    IF api = "documentToObject" THEN <<"was expecting a JSON number">>
    ELSE <<"was expecting a number">>

\* C10: in lazy mode a number that violates both bounds of a number block yields
\* exactly two errors for the node, the minimum violation then the maximum
\* violation, and no value; a type mismatch, and a decimal violation, yields
\* exactly one error, no bound being checked.
C10_BothBoundsCollected ==
    (NumberNodeWalked /\ lazyValidation)
        => /\ (/\ PassesTypeAndDecimal(NodeOf, format0)
               /\ ~MinimumHolds(NodeOf, Get(format0, "minimum"))
               /\ ~MaximumHolds(NodeOf, Get(format0, "maximum")))
                  => /\ Len(errors) = 2
                     /\ errors[1] = MinimumViolation(Get(format0, "minimum"))
                     /\ errors[2] = MaximumViolation(Get(format0, "maximum"))
                     /\ local = Undefined
           /\ (TypeOf(NodeOf) # "number" /\ ~(Get(format0, "option") = Bool(TRUE) /\ NodeOf = Null))
                  => errors = <<ValidationError(<<>>, ExpectingNumber)>> /\ local = Undefined
           /\ (NodeOf.t = "number" /\ ~PassesTypeAndDecimal(NodeOf, format0))
                  => /\ errors = <<ValidationError(<<>>, <<"was expecting non-decimal number">>)>>
                     /\ local = Undefined

\* a lazy decode has recorded the two violations of a number outside both bounds
C10_TwoViolationsRecorded ==
    /\ NumberNodeWalked /\ lazyValidation /\ api = "documentToObject"
    /\ format0 \in UncheckedBlocks
    /\ Len(errors) = 2
    /\ local = Undefined
---------------------------------------------------------------------------
(* The properties of the checks on data, and of the order of schema errors *)

\* the walk of a decode or encode call has run over a node, for a block the
\* validator accepted
AcceptedNodeWalked ==
    /\ NodeWalked
    /\ validated
    /\ input # Malformed

\* the node has the shape that a string, array or object block asks for
ShapeOf(node) ==
    CASE node.t = "string" -> "string"
      [] node.t = "array"  -> "array"
      [] node.t = "object" -> "object"
      [] OTHER -> "none"

\* the character count, element count or entry count of the node, in tenths
CountOf(node) ==
    CASE node.t = "string" -> 10 * StrLength(node.s)
      [] node.t = "array"  -> 10 * Len(node.a)
      [] node.t = "object" -> 10 * Len(node.o)

\* the integer part of a length that is not negative
WholePart(x) == IF x = Undefined THEN Undefined ELSE Num(x.n - (x.n % 10))

\* the length errors of a node of count n: exact, minimum and maximum are the
\* numbers the count is held against, Undefined where the constraint has none
LengthViolations(n, exact, minimum, maximum) ==
    IF exact # Undefined
    THEN IF n # exact.n
         THEN <<ValidationError(<<>>, <<"length must be equal to ", exact>>)>> ELSE <<>>
    ELSE IF minimum # Undefined /\ n < minimum.n
    THEN <<ValidationError(<<>>, <<"length must be equal or greater than ", minimum>>)>>
    ELSE IF maximum # Undefined /\ n > maximum.n
    THEN <<ValidationError(<<>>, <<"length must be equal or lower than ", maximum>>)>>
    ELSE <<>>

\* the length errors recorded at the path of the root node
LengthErrors(errs) ==
    SelectSeq(errs, LAMBDA e : e.path = <<>> /\ Head(e.message) \in
                  {"length must be equal to ", "length must be equal or greater than ",
                   "length must be equal or lower than "})

\* the walk has run over a node of the shape of the block, the block being a
\* string, array or object block with a length constraint
LengthChecked ==
    /\ AcceptedNodeWalked
    /\ Get(format0, "type") \in {Str("string"), Str("array"), Str("object")}
    /\ Get(format0, "type").s = ShapeOf(NodeOf)
    /\ Get(format0, "length") # Undefined

ExactOf(length)   == IF length.t = "number" THEN length ELSE Undefined
MinimumOf(length) == IF length.t = "number" THEN Undefined ELSE Get(length, "minimum")
MaximumOf(length) == IF length.t = "number" THEN Undefined ELSE Get(length, "maximum")

\* C11 as stated: a length error is recorded if and only if the constraint is
\* violated: n # N for an exact integer N, n < m for a minimum m, n > M for a
\* maximum M, with the message naming N, m or M, at the node's path, one at most.
C11_LengthCheckedAgainstConstraint ==
    (LengthChecked /\ (Get(format0, "length").t = "number" => IsInteger(Get(format0, "length"))))
        => LengthErrors(errors) =
               LengthViolations(CountOf(NodeOf), ExactOf(Get(format0, "length")),
                                MinimumOf(Get(format0, "length")),
                                MaximumOf(Get(format0, "length")))

\* C11 as the code has it: the count is held against the integer parts of the
\* length, of length.minimum and of length.maximum, and the message names the
\* integer part; at most one length error is recorded, at the node's path.
C11_LengthCheckedAgainstIntegerPart ==
    LengthChecked
        => LengthErrors(errors) =
               LengthViolations(CountOf(NodeOf), WholePart(ExactOf(Get(format0, "length"))),
                                WholePart(MinimumOf(Get(format0, "length"))),
                                WholePart(MaximumOf(Get(format0, "length"))))

\* a decode has refused an empty string under a minimum of 1.5, naming 1
C11_TruncatedMinimumReported ==
    /\ LengthChecked /\ api = "documentToObject"
    /\ Get(Get(format0, "length"), "minimum") = Num(15)
    /\ errors = <<ValidationError(<<>>, <<"length must be equal or greater than ", Num(10)>>)>>

--------------------------------------------------------------------------------

\* the keys of an object, as a set
KeySet(x) == {Keys(x)[i] : i \in 1..Len(Keys(x))}

\* the number of times the error e is in errs
Occurrences(errs, e) == Cardinality({i \in 1..Len(errs) : errs[i] = e})

UnexpectedField(key) == ValidationError(<<>>, <<"'", key, "' field was unexpected">>)

MissingField(key) == ValidationError(<<>>, <<"'", key, "' field was missing">>)

\* a decode or encode call for an accepted map block, given a key-value
\* structure, has gone through its walk
MapCallRun ==
    /\ validated
    /\ api \in {"documentToObject", "objectToDocument"}
    /\ PreconditionHolds
    /\ input # Malformed
    /\ pc \in {"walked", "done"}
    /\ Get(format0, "type") = Str("map")
    /\ NodeOf.t = "object"

\* the field of the block is declared optional
OptionalField(block, key) == Get(Get(Get(block, "fields"), key), "option") = Bool(TRUE)

\* C12: map membership is closed and optional fields are synthesized: every
\* input key that is not declared yields exactly one "field was unexpected"
\* error at the map's path and is absent from the output; every declared field
\* that is absent and not optional yields exactly one "field was missing" error;
\* every declared optional field that is absent yields no error and is in the
\* output with null; with no error the output's keys are the declared fields.
C12_MapMembershipClosed ==
    MapCallRun
        => /\ outcome # Thrown("TypeError")
           /\ \A key \in KeySet(NodeOf) \ KeySet(Get(format0, "fields")) :
                  /\ Occurrences(errors, UnexpectedField(key)) = 1
                  /\ pc = "walked" => ~HasOwn(local, key)
           /\ \A key \in KeySet(Get(format0, "fields")) \ KeySet(NodeOf) :
                  IF OptionalField(format0, key)
                  THEN /\ Occurrences(errors, MissingField(key)) = 0
                       /\ pc = "walked" => Get(local, key) = Null /\ HasOwn(local, key)
                  ELSE Occurrences(errors, MissingField(key)) = 1
           /\ (pc = "walked" /\ errors = <<>>)
                  => KeySet(local) = KeySet(Get(format0, "fields"))

--------------------------------------------------------------------------------

\* the place of the key in the sequence of keys
PlaceOf(keys, key) == CHOOSE i \in 1..Len(keys) : keys[i] = key

\* the keys of the document
DocumentKeys(text) == Keys(JsonParse(text))

\* the keys of the input that are in the document, in input order
SuppliedKeys(text, node) ==
    SelectSeq(Keys(node), LAMBDA key : HasOwn(JsonParse(text), key))

\* the declared fields that are in the document and not in the input, in
\* declared order
SynthesizedKeys(text, node, block) ==
    SelectSeq(Keys(Get(block, "fields")),
              LAMBDA key : HasOwn(JsonParse(text), key) /\ ~HasOwn(node, key))

\* an encode call for an accepted map block, given a key-value structure, has
\* written its document
MapEncoded ==
    /\ validated /\ api = "objectToDocument" /\ PreconditionHolds
    /\ pc = "dumped"
    /\ Get(format0, "type") = Str("map")
    /\ input.t = "object"

\* C13 as stated: in the document of a map node the fields the caller supplied
\* come first, in input order, and the synthesized null entries follow, in the
\* order their fields are declared.
C13_SuppliedThenSynthesized ==
    MapEncoded
        => DocumentKeys(local)
               = SuppliedKeys(local, input) \o SynthesizedKeys(local, input, format0)

\* the keys doc are the keys seq in the order of the properties of an object:
\* the array indices first, ascending, then the other keys in the order of seq
InPropertyOrder(doc, seq) ==
    /\ Len(doc) = Len(seq)
    /\ \A i \in 1..Len(seq) : \E j \in 1..Len(doc) : doc[j] = seq[i]
    /\ \A i, j \in 1..Len(doc) :
           i < j => IF IsArrayIndex(doc[j])
                    THEN IsArrayIndex(doc[i]) /\ IndexValue(doc[i]) < IndexValue(doc[j])
                    ELSE IsArrayIndex(doc[i]) \/ PlaceOf(seq, doc[i]) < PlaceOf(seq, doc[j])

\* C13 as the code has it: the fields whose name is an array index ("0", "1",
\* ...) come first in the document, in ascending order, supplied or
\* synthesized; the other supplied fields follow in input order, and after them
\* the other synthesized null entries in declared order.
C13_FieldsInPropertyOrder ==
    MapEncoded
        => InPropertyOrder(DocumentKeys(local),
               SuppliedKeys(local, input) \o SynthesizedKeys(local, input, format0))

\* an encode has written the synthesized entry "1" before the supplied field "a"
C13_SynthesizedIndexFirst ==
    /\ MapEncoded
    /\ Keys(input) = <<"a">>
    /\ DocumentKeys(local) = <<"1", "a">>
    /\ Get(JsonParse(local), "1") = Null

--------------------------------------------------------------------------------

\* the number of items a tuple block declares
Arity(block) == Len(Get(block, "items").a)

\* the walk has run over an array, the block being a tuple block that declares
\* another number of items
ArityMismatch ==
    /\ AcceptedNodeWalked
    /\ Get(format0, "type") = Str("tuple")
    /\ NodeOf.t = "array"
    /\ Len(NodeOf.a) # Arity(format0)

\* C14: tuple arity: an array whose length is not the number of declared items,
\* shorter or longer, yields exactly one error "length of the array must be N"
\* at the tuple's path; no item is decoded and the node yields no value.
C14_TupleArity ==
    ArityMismatch
        => /\ errors = <<ValidationError(<<>>, <<"length of the array must be ", Arity(format0)>>)>>
           /\ warnings = <<>>
           /\ local = Undefined

\* a decode has refused an array of three for a tuple of two, the first element
\* of the array being no boolean
C14_LongerArrayRefused ==
    /\ ArityMismatch /\ api = "documentToObject"
    /\ Arity(format0) = 2 /\ Len(NodeOf.a) = 3
    /\ NodeOf.a[1].t = "number"
    /\ Len(errors) = 1

--------------------------------------------------------------------------------

\* the block is marked optional
IsOptional(block) == Get(block, "option") = Bool(TRUE)

\* no error, and no warning, is recorded at the path or under it
NothingRecordedUnder(path) ==
    \A i \in 1..Len(log) :
        log[i].kind \in {"error", "warning"}
            => ~(Len(log[i].path) >= Len(path) /\ SubSeq(log[i].path, 1, Len(path)) = path)

\* the null elements of an array, under an optional value block, come out null
NullItemsPass ==
    (Get(format0, "type") = Str("array") /\ NodeOf.t = "array" /\ IsOptional(Get(format0, "value")))
        => \A i \in 1..Len(NodeOf.a) :
               NodeOf.a[i] = Null => local.a[i] = Null /\ NothingRecordedUnder(<<<<"[]", i - 1>>>>)

\* the null elements of a tuple, under an optional item block, come out null
NullTupleItemsPass ==
    (/\ Get(format0, "type") = Str("tuple") /\ NodeOf.t = "array"
     /\ Len(NodeOf.a) = Arity(format0))
        => \A i \in 1..Len(NodeOf.a) :
               (NodeOf.a[i] = Null /\ IsOptional(Get(format0, "items").a[i]))
                   => local.a[i] = Null /\ NothingRecordedUnder(<<<<"<>", i - 1>>>>)

\* the null fields of a map, under an optional field block, come out null
NullFieldsPass ==
    (Get(format0, "type") = Str("map") /\ NodeOf.t = "object")
        => \A key \in KeySet(NodeOf) \cap KeySet(Get(format0, "fields")) :
               (Get(NodeOf, key) = Null /\ OptionalField(format0, key))
                   => /\ HasOwn(local, key) /\ Get(local, key) = Null
                      /\ NothingRecordedUnder(<<<<"$", key>>>>)

\* C15: optional null short-circuit: under a block of any kind marked optional
\* a node that is null decodes and encodes to null, with no error recorded and
\* no check of the kind run, at the root and at the nested positions.
C15_OptionalNullPasses ==
    AcceptedNodeWalked
        => /\ (IsOptional(format0) /\ NodeOf = Null)
                  => local = Null /\ Records(log) = <<>> /\ format = format0
           /\ NullItemsPass
           /\ NullTupleItemsPass
           /\ NullFieldsPass

\* a decode has let null pass under an optional array block with a length
C15_NullArrayPassed ==
    /\ AcceptedNodeWalked /\ api = "documentToObject"
    /\ Get(format0, "type") = Str("array") /\ Get(format0, "length") # Undefined
    /\ IsOptional(format0) /\ NodeOf = Null
    /\ local = Null /\ errors = <<>>

--------------------------------------------------------------------------------

\* the shape a block of the kind asks for, for the kinds that hold other values
RequiredShape(block) ==
    IF Get(block, "type") \in {Str("array"), Str("tuple")} THEN "array" ELSE "object"

\* the error of a decode on a node that has not the shape the block asks for
ShapeMismatch(block) ==
    ValidationError(<<>>, IF RequiredShape(block) = "array"
                          THEN <<"was expecting a JSON array">>
                          ELSE <<"was expecting a JSON object">>)

\* a decode call for an accepted array, tuple, object or map block that is not
\* optional, given a value of another shape, has gone through its walk
MismatchDecoded ==
    /\ validated /\ api = "documentToObject" /\ PreconditionHolds
    /\ input # Malformed
    /\ pc \in {"walked", "done"}
    /\ Get(format0, "type") \in {Str("array"), Str("tuple"), Str("object"), Str("map")}
    /\ ~IsOptional(format0)
    /\ NodeOf.t # RequiredShape(format0)

\* C16: a kind mismatch is always a ValidationError: for a block of kind array,
\* tuple, object or map that is not optional, a JSON value of another shape
\* (boolean, number, string, null, object for array, array for object) yields
\* exactly one ValidationError at the node's path, "was expecting a JSON array"
\* or "was expecting a JSON object", and the call fails in no other way.
C16_MismatchIsValidationError ==
    MismatchDecoded
        => /\ errors = <<ShapeMismatch(format0)>>
           /\ outcome.kind = "throw" => outcome = ThrownError(ShapeMismatch(format0))

--------------------------------------------------------------------------------

\* a decode call given a text that does not parse has passed the asserts and
\* gone on
MalformedParsed ==
    /\ api = "documentToObject" /\ input = Malformed /\ PreconditionHolds
    /\ pc \notin {"idle", "called", "ready"}

\* C17: a parse failure aborts the whole decode: in eager and in lazy mode the
\* call fails with the parse error of the codec, no check against the schema
\* runs, no value is returned, and the errors collection of the caller is still
\* empty: the parse error is never collected as a ValidationError.
C17_ParseFailureAborts ==
    MalformedParsed
        => /\ pc = "done"
           /\ outcome = Thrown("SyntaxError")
           /\ errors = <<>> /\ warnings = <<>>
           /\ log = <<[kind |-> "parse"]>>
           /\ local = Undefined
           /\ format = format0

\* a lazy decode of a text that does not parse has thrown
C17_LazyDecodeThrew ==
    /\ MalformedParsed /\ errorsArg = Arr(<<>>)
    /\ outcome = Thrown("SyntaxError")

--------------------------------------------------------------------------------

\* an eager validator call whose walk recorded warnings and no error has ended
WarnedOnly ==
    /\ api = "validateFormat" /\ pc = "done"
    /\ PreconditionHolds /\ ~lazyValidation
    /\ WarningsOf(log) # <<>>
    /\ ErrorsOf(log) = <<>>

\* C18: warnings are never fatal: when the validation walk of a schema records
\* warnings and no error, the eager validator call returns without throwing,
\* and every warning of the walk is appended to the warnings collection of the
\* caller and none to the errors collection.
C18_WarningsNeverFatal ==
    WarnedOnly
        => /\ outcome = Returned(Undefined)
           /\ errors = <<>>
           /\ warnings = WarningsOf(log)

--------------------------------------------------------------------------------

\* the walk of a validator call has run over an enum block whose values are an
\* array that is not empty
EnumWalked ==
    /\ api = "validateFormat" /\ pc = "walked" /\ PreconditionHolds
    /\ format0.t = "object"
    /\ Get(format0, "type") = Str("enum")
    /\ Get(format0, "values").t = "array"
    /\ Len(Get(format0, "values").a) > 0

\* the value matches the name pattern
MatchesName(value) == NamePatternTest(JsToString(value))

\* the places of the values that match the name pattern and equal an earlier value
RepeatedPlaces(values) ==
    {i \in 1..Len(values) : MatchesName(values[i]) /\ \E j \in 1..(i - 1) : values[j] = values[i]}

\* the places of the values that match the name pattern
MatchingPlaces(values) == {i \in 1..Len(values) : MatchesName(values[i])}

DuplicatedValue(value) ==
    ValidationError(<<<<"values">>>>, <<"'", JsToString(value), "' value is duplicated">>)

\* the "value is duplicated" errors among the errors
DuplicateErrors(errs) ==
    SelectSeq(errs, LAMBDA e : Len(e.message) = 3 /\ e.message[3] = "' value is duplicated")

\* C19: enum duplicate detection: the validator records one error "'<v>' value
\* is duplicated" at path [..., 'values'] for each occurrence of a value that
\* matches the name pattern and equals an earlier occurrence, and none for a
\* first occurrence: as many as there are matching occurrences less the number
\* of distinct matching values.
C19_EnumDuplicates ==
    EnumWalked
        => /\ \A i \in 1..Len(Get(format0, "values").a) :
                  Occurrences(DuplicateErrors(errors), DuplicatedValue(Get(format0, "values").a[i]))
                      = Cardinality({j \in RepeatedPlaces(Get(format0, "values").a) :
                                        Get(format0, "values").a[j] = Get(format0, "values").a[i]})
           /\ Len(DuplicateErrors(errors))
                  = Cardinality(MatchingPlaces(Get(format0, "values").a))
                      - Cardinality({Get(format0, "values").a[i] :
                                        i \in MatchingPlaces(Get(format0, "values").a)})
           /\ \A i \in 1..Len(DuplicateErrors(errors)) :
                  DuplicateErrors(errors)[i].path = <<<<"values">>>>

\* the validator has reported the second and the third "foo" of an enum block,
\* and not the second "a b"
C19_ThirdOccurrenceReported ==
    /\ EnumWalked
    /\ DuplicateErrors(errors) = <<DuplicatedValue(Str("foo")), DuplicatedValue(Str("foo"))>>
    /\ Len(errors) = 4

--------------------------------------------------------------------------------

\* the value is a block whose type names a kind
HasValidType(block) ==
    /\ block.t = "object"
    /\ Get(block, "type").t = "string"
    /\ Get(block, "type").s \in ValidatorKinds

\* the properties of the block that neither its kind nor every kind has, in
\* the order of the properties of the block
ExtraProperties(block) ==
    SelectSeq(Keys(block),
              LAMBDA p : p \notin (ValidatorProperties(Get(block, "type").s) \cup CommonProperties))

\* the errors for the properties of the block that are unexpected
UnexpectedErrors(path, block) ==
    [i \in 1..Len(ExtraProperties(block)) |->
        ValidationError(path, <<"'", ExtraProperties(block)[i], "' property is unexpected">>)]

\* the error for a property of every kind, if its value has not the type
MistypedError(path, block, property, type, message) ==
    IF Get(block, property) # Undefined /\ TypeOf(Get(block, property)) # type
    THEN <<ValidationError(Append(path, <<property>>), <<message>>)>>
    ELSE <<>>

\* the errors for name, description and option, in that order
CommonErrors(path, block) ==
    MistypedError(path, block, "name", "string", "value must be a string")
        \o MistypedError(path, block, "description", "string", "value must be a string")
        \o MistypedError(path, block, "option", "boolean", "value must be a bool")

\* the errors recorded at the path or under it
ErrorsUnder(path, errs) ==
    SelectSeq(errs, LAMBDA e : Len(e.path) >= Len(path) /\ SubSeq(e.path, 1, Len(path)) = path)

\* the error is one of the block itself that does not come from its kind
OwnError(path, e) ==
    \/ e.path \in {Append(path, <<"name">>), Append(path, <<"description">>),
                   Append(path, <<"option">>)}
    \/ e.path = path /\ Len(e.message) = 3 /\ e.message[3] = "' property is unexpected"

\* errs, the errors of the block at path, are the errors for its unexpected
\* properties (u), then errors of its kind, then the errors for name,
\* description and option (c)
InBlockOrder(path, errs, u, c) ==
    /\ Len(errs) >= Len(u) + Len(c)
    /\ SubSeq(errs, 1, Len(u)) = u
    /\ SubSeq(errs, Len(errs) - Len(c) + 1, Len(errs)) = c
    /\ \A i \in (Len(u) + 1)..(Len(errs) - Len(c)) : ~OwnError(path, errs[i])

\* the errors of the block at path are in the order of the checks
BlockOrdered(path, block) ==
    HasValidType(block)
        => InBlockOrder(path, ErrorsUnder(path, errors),
                        UnexpectedErrors(path, block), CommonErrors(path, block))

\* the walk of a validator call has run to its end
FormatWalked == api = "validateFormat" /\ pc = "walked" /\ PreconditionHolds

\* C20: order of schema errors: the errors recorded for a block with a valid
\* type are first the "'<p>' property is unexpected" errors in the order of the
\* block's properties, then the errors of the kind (those of the nested blocks
\* among them), then the errors for name, description and option in that
\* order; no common-property error of a parent precedes an error of a nested
\* block.  Stated of the root block and of the items of a tuple block.
C20_SchemaErrorOrder ==
    FormatWalked
        => /\ BlockOrdered(<<>>, format0)
           /\ (/\ HasValidType(format0) /\ Get(format0, "type") = Str("tuple")
               /\ Get(format0, "items").t = "array")
                  => \A i \in 1..Len(Get(format0, "items").a) :
                         BlockOrdered(<<<<"<>", i - 1>>>>, Get(format0, "items").a[i])

\* the validator has recorded the errors of a tuple block and of its item: the
\* unexpected properties of the tuple, the errors of the item, the name and the
\* description of the tuple
C20_ParentCommonErrorsLast ==
    /\ FormatWalked
    /\ HasValidType(format0) /\ Get(format0, "type") = Str("tuple")
    /\ Len(UnexpectedErrors(<<>>, format0)) = 2
    /\ Len(CommonErrors(<<>>, format0)) = 2
    /\ Len(errors) = 7
    /\ errors[6].path = <<<<"name">>>> /\ errors[7].path = <<<<"description">>>>
    /\ errors[5].path = <<<<"<>", 0>>, <<"option">>>>
---------------------------------------------------------------------------
(* The properties of accepted blocks, of shared blocks, and of the walks *)

\* the walk of a validator call has run over a block of the kind and recorded
\* no error
AcceptedAs(kind) ==
    /\ FormatWalked
    /\ format0.t = "object"
    /\ Get(format0, "type") = Str(kind)
    /\ errors = <<>>

\* the values are strings that match the name pattern
AllNames(values) ==
    \A i \in 1..Len(values) : values[i].t = "string" /\ NamePatternTest(values[i].s)

\* the values are pairwise distinct
PairwiseDistinct(values) ==
    \A i, j \in 1..Len(values) : i # j => values[i] # values[j]

\* C21: accepted enum blocks satisfy the grammar: an enum block for which the
\* validator records no error has a values property that is an array, not
\* empty, whose elements are all strings, each matching ^[a-zA-Z0-9_-]+$, and
\* pairwise distinct.
C21_AcceptedEnumIsWellFormed ==
    AcceptedAs("enum")
        => /\ Get(format0, "values").t = "array"
           /\ Len(Get(format0, "values").a) > 0
           /\ AllNames(Get(format0, "values").a)
           /\ PairwiseDistinct(Get(format0, "values").a)

--------------------------------------------------------------------------------

\* the call of the caller has returned what the call run alone returns, with
\* the errors the call run alone records
AsAlone(call, alone) ==
    /\ call.result.val = alone.val
    /\ ErrorsOf(call.result.st.log) = ErrorsOf(alone.st.log)
    /\ call.result.st.thrown = alone.st.thrown

\* C22: concurrent reuse of one validated block is safe: when decode and encode
\* calls share one validated block, each with its own collections, and their
\* statements interleave in any way, each call returns the value and records
\* the errors of the same call run alone on the block as it was validated.
C22_SharedBlockSafe ==
    \A c \in Callers :
        calls[c].pc = "done" => AsAlone(calls[c], AdjustNode(c, calls[c].node, format0))

\* a call has ended with a length error while another call was between its
\* read and its write of the same bound, the block being already written
C22_EndedDuringAnotherWrite ==
    \E c, d \in Callers :
        /\ c # d
        /\ calls[c].pc = "done" /\ ErrorsOf(calls[c].result.st.log) # <<>>
        /\ calls[d].pc = "write" /\ calls[d].tmp # Get(Get(format0, "length"), calls[d].name)
        /\ format # format0

--------------------------------------------------------------------------------

\* the walk of the call has recorded an error for the root node itself
RootErrorRecorded == \E i \in 1..Len(errors) : errors[i].path = <<>>

\* C23: a node with an error yields nothing: whenever the decode or encode step
\* of a kind records at least one error for the node itself (type mismatch,
\* bound, decimal, length, pattern, enum membership, tuple arity, unexpected or
\* missing map field), the value returned for the node is undefined.  Stated
\* of the root node of a call on a validated block.
C23_ErrorYieldsNothing ==
    (AcceptedNodeWalked /\ RootErrorRecorded) => local = Undefined

--------------------------------------------------------------------------------

\* a lazy decode or encode call on a validated block has walked a container
\* node of the shape the block asks for, or has been cut short by a TypeError
LazyContainerWalked ==
    /\ validated /\ api \in {"documentToObject", "objectToDocument"}
    /\ PreconditionHolds /\ lazyValidation
    /\ input # Malformed
    /\ pc = "walked" \/ (pc = "done" /\ outcome = Thrown("TypeError"))
    /\ \/ Get(format0, "type") = Str("array") /\ NodeOf.t = "array"
       \/ Get(format0, "type") = Str("tuple") /\ NodeOf.t = "array"
            /\ Len(NodeOf.a) = Len(Get(format0, "items").a)
       \/ Get(format0, "type") \in {Str("object"), Str("map")} /\ NodeOf.t = "object"

\* the children of the node walked, in input order
ChildCount == IF NodeOf.t = "array" THEN Len(NodeOf.a) ELSE Len(NodeOf.o)

ChildNode(i) == IF NodeOf.t = "array" THEN NodeOf.a[i] ELSE NodeOf.o[i].v

\* the path segment of child i
ChildSegment(i) ==
    CASE Get(format0, "type") = Str("array")  -> <<"[]", i - 1>>
      [] Get(format0, "type") = Str("tuple")  -> <<"<>", i - 1>>
      [] Get(format0, "type") = Str("object") -> <<"{}", NodeOf.o[i].k>>
      [] Get(format0, "type") = Str("map")    -> <<"$", NodeOf.o[i].k>>

\* the block that child i is walked against
ChildBlock(i) ==
    CASE Get(format0, "type") = Str("array")  -> Get(format0, "value")
      [] Get(format0, "type") = Str("tuple")  -> Get(format0, "items").a[i]
      [] Get(format0, "type") = Str("object") -> Get(format0, "value")
      [] Get(format0, "type") = Str("map")    -> Get(Get(format0, "fields"), NodeOf.o[i].k)

\* child i is one the walk hands to adjustNode: every element and item, the
\* entries whose key is accepted, the fields that the block declares
ChildWalked(i) ==
    CASE Get(format0, "type") = Str("object") ->
             IF Get(format0, "key") = Str("integer")
             THEN IsInteger(ParseFloat(NodeOf.o[i].k))
             ELSE NamePatternTest(NodeOf.o[i].k)
      [] Get(format0, "type") = Str("map") -> HasOwn(Get(format0, "fields"), NodeOf.o[i].k)
      [] OTHER -> TRUE

\* child i walked alone
ChildAlone(i) ==
    IF api = "documentToObject"
    THEN doc_adjustNode(<<ChildSegment(i)>>, ChildNode(i), ChildBlock(i), NoLog)
    ELSE obj_adjustNode(<<ChildSegment(i)>>, ChildNode(i), ChildBlock(i), NoLog)

\* the place in the input of the child that the error e belongs to
ChildOf(e) == CHOOSE i \in 1..ChildCount : ChildSegment(i) = e.path[1]

\* every child walked has the errors it has when walked alone
EveryChildWalked ==
    \A i \in 1..ChildCount :
        ChildWalked(i) =>
            ErrorsUnder(<<ChildSegment(i)>>, errors) = ErrorsOf(ChildAlone(i).st.log)

\* the errors of the children are in the order of the children
ChildErrorsInOrder ==
    \A p, q \in 1..Len(errors) :
        (p < q /\ errors[p].path # <<>> /\ errors[q].path # <<>>)
            => ChildOf(errors[p]) <= ChildOf(errors[q])

\* the array returned has a place for every element, empty where it failed
EveryPlaceKept ==
    NodeOf.t = "array" =>
        /\ pc = "walked"
        /\ local.t = "array"
        /\ Len(local.a) = Len(NodeOf.a)
        /\ \A i \in 1..Len(NodeOf.a) : local.a[i] = ChildAlone(i).val

\* C24: lazy walks visit every child in order: in lazy mode, for an array, a
\* tuple of matching arity, an object and a map, every element, item, entry and
\* field of the input is decoded whatever happens to its siblings, the errors
\* of a child come before those of every later child, and the array returned
\* for an array or tuple has the length of the input, the places of the failed
\* children being left undefined.
C24_LazyWalkVisitsEveryChild ==
    LazyContainerWalked => (EveryChildWalked /\ ChildErrorsInOrder /\ EveryPlaceKept)

--------------------------------------------------------------------------------

\* a call on a validated object block with integer keys has walked an object
IntegerKeysWalked ==
    /\ AcceptedNodeWalked
    /\ Get(format0, "type") = Str("object")
    /\ Get(format0, "key") = Str("integer")
    /\ NodeOf.t = "object"

\* cs, from position i on, is one digit or more and nothing else
AllDigitsFrom(cs, i) == i <= Len(cs) /\ \A j \in i..Len(cs) : cs[j] \in DigitSet

\* the key is an integer literal: digits, after a sign or without one
IntegerLiteral(k) ==
    IF Len(Chars(k)) > 0 /\ Chars(k)[1] \in {"+", "-"}
    THEN AllDigitsFrom(Chars(k), 2)
    ELSE AllDigitsFrom(Chars(k), 1)

\* the error recorded for the key of entry i
KeyError(i) ==
    ValidationError(<<>>, <<"key at index ", i - 1, " is invalid; expected it to be an integer">>)

\* C25: integer object keys: under an object block with key = integer an entry
\* of the input is decoded and kept if and only if its key is an integer
\* literal; every other key yields the one error "key at index N is invalid;
\* expected it to be an integer" at the path of the object, its value is not
\* decoded and the output has no entry for it.
C25_IntegerKeysExact ==
    IntegerKeysWalked =>
        \A i \in 1..Len(NodeOf.o) :
            IF IntegerLiteral(NodeOf.o[i].k)
            THEN /\ Occurrences(errors, KeyError(i)) = 0
                 /\ HasOwn(local, IntegerToString(ParseFloat(NodeOf.o[i].k)))
            ELSE /\ Occurrences(errors, KeyError(i)) = 1
                 /\ ErrorsUnder(<<<<"{}", NodeOf.o[i].k>>>>, errors) = <<>>

--------------------------------------------------------------------------------

\* the validator has walked a number block
NumberBlockWalked ==
    /\ FormatWalked
    /\ format0.t = "object"
    /\ Get(format0, "type") = Str("number")

\* the bound is a bare number, or an object with a numeric value and no
\* property other than exclusive and value
WellFormedBound(bound) ==
    \/ bound.t = "number"
    \/ /\ bound.t = "object"
       /\ \A i \in 1..Len(bound.o) : bound.o[i].k \in {"exclusive", "value"}
       /\ Get(bound, "value").t = "number"

BoundValue(bound) == IF bound.t = "number" THEN bound.n ELSE Get(bound, "value").n

\* the two bounds are set and well formed, and the maximum is the lower one
BoundsCross ==
    /\ WellFormedBound(Get(format0, "minimum"))
    /\ WellFormedBound(Get(format0, "maximum"))
    /\ BoundValue(Get(format0, "maximum")) < BoundValue(Get(format0, "minimum"))

CrossError == ValidationError(<<>>, <<"minimum must be lower than maximum">>)

\* C26: number schema cross-check: the validator records "minimum must be
\* lower than maximum" at the path of a number block if and only if minimum
\* and maximum are both present, each is a bare number or an object with a
\* numeric value and no extra property, and the value of maximum is lower than
\* the value of minimum; the exclusive flags play no part, so equal values are
\* accepted even when both bounds are exclusive.
C26_NumberCrossCheck ==
    NumberBlockWalked =>
        /\ Occurrences(errors, CrossError) = (IF BoundsCross THEN 1 ELSE 0)

\* two exclusive bounds of equal value have been accepted
C26_EqualExclusiveAccepted ==
    /\ NumberBlockWalked
    /\ Get(format0, "minimum").t = "object" /\ Get(Get(format0, "minimum"), "exclusive") = Bool(TRUE)
    /\ Get(format0, "maximum").t = "object" /\ Get(Get(format0, "maximum"), "exclusive") = Bool(TRUE)
    /\ BoundValue(Get(format0, "minimum")) = BoundValue(Get(format0, "maximum"))
    /\ errors = <<>>

--------------------------------------------------------------------------------

\* the validator has walked a block whose length is a number or an object
LengthWalked ==
    /\ FormatWalked
    /\ format0.t = "object"
    /\ Get(format0, "type") \in {Str("string"), Str("array"), Str("object")}
    /\ Get(format0, "length").t \in {"number", "object"}

LengthPath == <<<<"length">>>>

\* 1 when the condition holds, 0 when it does not
Once(condition) == IF condition THEN 1 ELSE 0

\* the properties of an object-form length other than minimum and maximum
ExtraOfLength(length) == SelectSeq(Keys(length), LAMBDA p : p \notin {"minimum", "maximum"})

\* the entries of the log at the path of the length, or below it
LoggedUnderLength == SelectSeq(log, LAMBDA e : e.kind \in {"error", "warning"}
                                        /\ Len(e.path) >= 1 /\ e.path[1] = <<"length">>)

\* what is recorded for a length that is a bare number
BareLengthChecked(length) ==
    /\ Occurrences(warnings, ValidationWarning(LengthPath, <<"should be an integer (got decimal)">>))
           = Once(length.n % 10 # 0)
    /\ Occurrences(errors, ValidationError(LengthPath, <<"must be greater or equal to zero">>))
           = Once(length.n < 0)
    /\ Len(LoggedUnderLength) = Once(length.n % 10 # 0) + Once(length.n < 0)

\* what is recorded for an object-form length with extra properties
ExtraLengthChecked(length) ==
    LoggedUnderLength =
        [i \in 1..Len(ExtraOfLength(length)) |->
            ValidationError(LengthPath, <<"'", ExtraOfLength(length)[i], "' property is unexpected">>)]

\* what is recorded for the bound name of an object-form length
LengthBoundChecked(name, bound) ==
    /\ Occurrences(errors, ValidationError(Append(LengthPath, <<name>>), <<"value must be a number">>))
           = Once(bound # Undefined /\ bound.t # "number")
    /\ Occurrences(warnings, ValidationWarning(Append(LengthPath, <<name>>),
                                               <<"should be an integer (got decimal)">>))
           = Once(bound # Undefined /\ ~(bound.t = "number" /\ bound.n % 10 = 0))
    /\ Occurrences(errors, ValidationError(Append(LengthPath, <<name>>),
                                           <<"must be greater or equal to zero">>))
           = Once(bound # Undefined /\ JsLt(bound, Num(0)))
    /\ Cardinality({i \in 1..Len(LoggedUnderLength) :
                        LoggedUnderLength[i].path = Append(LengthPath, <<name>>)})
           = Once(bound # Undefined /\ bound.t # "number")
               + Once(bound # Undefined /\ ~(bound.t = "number" /\ bound.n % 10 = 0))
               + Once(bound # Undefined /\ JsLt(bound, Num(0)))

\* what is recorded for an object-form length without extra property
BoundedLengthChecked(minimum, maximum) ==
    /\ LengthBoundChecked("minimum", minimum)
    /\ LengthBoundChecked("maximum", maximum)
    /\ Occurrences(errors, ValidationError(LengthPath, <<"minimum must be lower than maximum">>))
           = Once(minimum # Undefined /\ maximum # Undefined /\ JsGt(minimum, maximum))
    /\ Cardinality({i \in 1..Len(LoggedUnderLength) : LoggedUnderLength[i].path = LengthPath})
           = Once(minimum # Undefined /\ maximum # Undefined /\ JsGt(minimum, maximum))

\* C27: length constraint validation in a schema: a bare number yields the
\* warning "should be an integer (got decimal)" iff it is no integer and the
\* error "must be greater or equal to zero" iff it is negative; an object with
\* properties other than minimum and maximum yields one "'<p>' property is
\* unexpected" error per extra property at [..., 'length'] and nothing else;
\* otherwise minimum and maximum are each checked on their own (no number:
\* error, no integer: warning, negative: error, at [..., 'length', name]) and
\* "minimum must be lower than maximum" is recorded at [..., 'length'] iff both
\* are present and minimum > maximum.
C27_LengthValidation ==
    LengthWalked =>
        IF Get(format0, "length").t = "number"
        THEN BareLengthChecked(Get(format0, "length"))
        ELSE IF ExtraOfLength(Get(format0, "length")) # <<>>
        THEN ExtraLengthChecked(Get(format0, "length"))
        ELSE BoundedLengthChecked(Get(Get(format0, "length"), "minimum"),
                                  Get(Get(format0, "length"), "maximum"))

\* a length whose bounds cross, the maximum being no integer, has been reported
C27_CrossedLengthReported ==
    /\ LengthWalked
    /\ Occurrences(errors, ValidationError(LengthPath, <<"minimum must be lower than maximum">>)) = 1
    /\ Occurrences(warnings, ValidationWarning(Append(LengthPath, <<"maximum">>),
                                               <<"should be an integer (got decimal)">>)) = 1

--------------------------------------------------------------------------------

NoNode == [ok |-> FALSE, node |-> Undefined, block |-> Undefined]

RECURSIVE NodeAt(_, _, _)

\* the child of the node that the segment names, if the block gives it a place
NodeAtSegment(node, block, segment, rest) ==
    CASE segment[1] = "[]" /\ Get(block, "type") = Str("array") /\ node.t = "array"
             /\ segment[2] + 1 \in 1..Len(node.a)
           -> NodeAt(node.a[segment[2] + 1], Get(block, "value"), rest)
      [] segment[1] = "<>" /\ Get(block, "type") = Str("tuple") /\ node.t = "array"
             /\ segment[2] + 1 \in 1..Len(node.a)
           -> NodeAt(node.a[segment[2] + 1], Get(block, "items").a[segment[2] + 1], rest)
      [] segment[1] = "{}" /\ Get(block, "type") = Str("object") /\ node.t = "object"
             /\ HasOwn(node, segment[2])
           -> NodeAt(Get(node, segment[2]), Get(block, "value"), rest)
      [] segment[1] = "$" /\ Get(block, "type") = Str("map") /\ node.t = "object"
             /\ HasOwn(node, segment[2]) /\ HasOwn(Get(block, "fields"), segment[2])
           -> NodeAt(Get(node, segment[2]), Get(Get(block, "fields"), segment[2]), rest)
      [] OTHER -> NoNode

\* the node that the path leads to from node, and the block it is held against
NodeAt(node, block, path) ==
    IF path = <<>> THEN [ok |-> TRUE, node |-> node, block |-> block]
    ELSE NodeAtSegment(node, block, Head(path), Tail(path))

\* the errors that the node n has of its own when it is walked alone
OwnErrorsAlone(n) ==
    IF api = "documentToObject"
    THEN ErrorsOf(doc_adjustNode(<<>>, n.node, n.block, NoLog).st.log)
    ELSE ErrorsOf(obj_adjustNode(<<>>, n.node, n.block, NoLog).st.log)

\* the error names a node of the input and is an error of the check of that node
LocatesFailingNode(e) ==
    /\ NodeAt(NodeOf, format0, e.path).ok
    /\ Occurrences(OwnErrorsAlone(NodeAt(NodeOf, format0, e.path)),
                   ValidationError(<<>>, e.message)) > 0

\* a decode or encode call on a validated block is past its walk
NodeCallWalked ==
    /\ validated /\ api \in {"documentToObject", "objectToDocument"}
    /\ PreconditionHolds /\ input # Malformed
    /\ pc \in {"walked", "dumped", "done"}

\* the errors recorded so far are still there, as they were
ErrorsKept ==
    pc \in {"walked", "dumped"} =>
        /\ Len(errors') >= Len(errors)
        /\ \A i \in 1..Len(errors) : errors'[i] = errors[i]

\* C28: error paths locate the failing node: every error recorded by decode or
\* encode carries as path the segments from the root to the node whose check
\* failed ([i] for element i of an array, {k} for the entry of an object with
\* raw key k, <i> for item i of a tuple, $k for field k of a map, the empty
\* path for the root), so the length of the path is the depth of the node, and
\* the path of an error once recorded is not changed by later steps.
C28_PathsLocateFailingNode ==
    /\ [](NodeCallWalked => \A i \in 1..Len(errors) : LocatesFailingNode(errors[i]))
    /\ [][ErrorsKept]_vars

\* an error has been recorded two levels below the root
C28_NestedErrorRecorded ==
    /\ NodeCallWalked
    /\ \E i \in 1..Len(errors) :
           Len(errors[i].path) = 2 /\ LocatesFailingNode(errors[i])

--------------------------------------------------------------------------------

\* C29: object decode preserves the number of entries: under an object block
\* with key = integer, whenever the decode or encode of an input records no
\* error, the output has exactly one entry per entry of the input: distinct
\* keys of the input are never mapped onto the same key of the output.
C29_EntriesPreserved ==
    (IntegerKeysWalked /\ errors = <<>>) =>
        /\ local.t = "object"
        /\ Len(local.o) = Len(NodeOf.o)

--------------------------------------------------------------------------------

\* a lazy decode or encode call on a validated map block has walked an object,
\* or has been cut short by a TypeError
LazyMapWalked ==
    /\ LazyContainerWalked
    /\ Get(format0, "type") = Str("map")

\* the first phase: for the entries i.. of the input, the errors of the field
\* when the block declares it, the unexpected-field error when it does not
RECURSIVE EntryPhase(_)
EntryPhase(i) ==
    IF i > Len(NodeOf.o) THEN <<>>
    ELSE (IF HasOwn(Get(format0, "fields"), NodeOf.o[i].k)
          THEN ErrorsOf(ChildAlone(i).st.log)
          ELSE <<UnexpectedField(NodeOf.o[i].k)>>) \o EntryPhase(i + 1)

\* the second phase: for the fields j.. of the block, the missing-field error
\* when the field is not optional and the input has no entry for it
RECURSIVE MissingPhase(_)
MissingPhase(j) ==
    IF j > Len(Get(format0, "fields").o) THEN <<>>
    ELSE (IF ~HasOwn(NodeOf, Get(format0, "fields").o[j].k)
               /\ Get(Get(format0, "fields").o[j].v, "option") # Bool(TRUE)
          THEN <<MissingField(Get(format0, "fields").o[j].k)>>
          ELSE <<>>) \o MissingPhase(j + 1)

\* C30: order of map errors in lazy mode: the errors of a map node come in two
\* phases: first, for each key of the input in input order, the errors of the
\* field that the block declares for it or the "field was unexpected" error of
\* an undeclared key; then the "field was missing" errors of the fields that
\* are absent and not optional, in the order of their declaration.  No
\* missing-field error precedes an error of the first phase, and a declared
\* field that is present and fails to decode is not reported missing.
C30_MapErrorsInTwoPhases ==
    LazyMapWalked => errors = EntryPhase(1) \o MissingPhase(1)

====
